---------------------------- MODULE Spec2Model ----------------------------
(***************************************************************************)
(* Round settlement ledger of the card-game calculators.                   *)
(*                                                                         *)
(* Three React components share one shape of state (setup, players,        *)
(* gameHistory, isCalculated) and differ in the settlement rule:           *)
(*   TienLenCalculator  ("tien-len", Ladder)                               *)
(*   XiDachCalculator   ("xi-dach",  Banker)                               *)
(*   KachTeCalculator   ("kach-te",  Pot)                                  *)
(* GameMenu mounts exactly one of them, so one set of variables holds the  *)
(* state of the mounted component and selectedGame says which it is.       *)
(*                                                                         *)
(* Every handler is one action.  A React state update that mutates the     *)
(* player objects in place (newPlayers = [...players]) is modelled by the  *)
(* value the objects have when the handler returns.                        *)
(***************************************************************************)
EXTENDS Integers, Sequences, FiniteSets, TLC

VARIABLES
    selectedGame,        \* GameMenu.selectedGame: "null" (menu) or a game id
    setup,               \* GameSetup of the mounted calculator, or NoSetup
    players,             \* Player[] of the round in progress
    showSetup,           \* the setup form is shown
    gameHistory,         \* GameRound[]: the ledger
    isCalculated,        \* the round in progress has been settled
    validationError,     \* error shown by calculateMoney, or NoError
    editingRoundId,      \* TienLen: id of the round open in the edit modal, 0 = none
    editingRoundPlayers, \* TienLen: the draft players of the edit modal
    editModalError,      \* TienLen: error shown in the edit modal, or NoError
    currentSessionId,    \* id of the stored session of the game, 0 = null
    timer,               \* the setTimeout of the auto-save effect is pending
    saving,              \* the saveSession calls that await saveGameSession
    last,                \* history variable: the command that made the last step
    pre,                 \* history variable: players/setup before the last calculateMoney
    issued,              \* history variable: saves issued since the last change of state: 0, 1, or 2 for more
    store,               \* the sessions under the localStorage key 'game_sessions'
    sheet                \* the sessions in the game_sessions sheet of the server

vars == <<selectedGame, setup, players, showSetup, gameHistory, isCalculated,
          validationError, editingRoundId, editingRoundPlayers, editModalError,
          currentSessionId, timer, saving, last, pre, issued, store, sheet>>

---------------------------------------------------------------------------
(* Bounds of the model *)

MaxRounds == 2          \* calculateMoney appends only while the ledger is shorter
MaxPlayers == 4         \* largest table that is settled
MaxMoney == 15000       \* calculateMoney is explored while |money| stays within

(* Program constants *)

MinPlayers == 2         \* <input name="numberOfPlayers" min="2">
TienLenMaxPlayers == 4  \* <input name="numberOfPlayers" max="4">

---------------------------------------------------------------------------
(* Values *)

Null == "null"
NoSetup == [null |-> TRUE]
NoError == [kind |-> "none"]
NoPre == [none |-> TRUE]

Games == {"tien-len", "xi-dach", "kach-te"}
Positions == {"nhat", "nhi", "ba", "bet"}
Rules == {"nhat-an-het", "nhat-an-bet-nhi-an-ba"}

DefaultNames == <<"Nguoi choi 1", "Nguoi choi 2", "Nguoi choi 3",
                  "Nguoi choi 4", "Nguoi choi 5", "Nguoi choi 6">>

(* new Date().toISOString(): nothing reads the value, any instant may be stored *)
Times == {"t"}

Abs(x) == IF x < 0 THEN -x ELSE x

RECURSIVE SumMoney(_)
SumMoney(ps) == IF ps = <<>> THEN 0 ELSE Head(ps).money + SumMoney(Tail(ps))

Ids(ps) == {ps[i].id : i \in DOMAIN ps}

(* Array.prototype.find / findIndex: the first index that satisfies P, 0 if none *)
FirstIndex(s, P(_)) ==
    IF \E i \in DOMAIN s : P(s[i])
    THEN CHOOSE i \in DOMAIN s : P(s[i]) /\ \A j \in 1..(i - 1) : ~P(s[j])
    ELSE 0

(* Array.prototype.filter *)
Filter(s, P(_)) == SelectSeq(s, P)

WithinCap(ps) == \A i \in DOMAIN ps : Abs(ps[i].money) <= MaxMoney

---------------------------------------------------------------------------
(* Auto-save: the effect with the dependencies setup, players, gameHistory, *)
(* currentSessionId and saveSession.  A state update of a dependency runs   *)
(* the cleanup (clearTimeout) and the effect again.                         *)

MaxInFlight == 2        \* saveSession calls that may await at the same time

(* the ids a stored session may get from saveGameSession *)
SessionIds == {1, 2}

(* "if (!setup || players.length === 0) return" of the effect and of saveSession *)
Armed(su, ps) == su # NoSetup /\ Len(ps) > 0

(* JSON.stringify / JSON.parse of a setup, a player list or a ledger: the   *)
(* stored text is not the value; parsing the text of a value made of        *)
(* numbers, strings, booleans, null and arrays gives the value back         *)
JSON_stringify(value) == [json |-> value]

JSON_parse(text) == text.json

(* the sessions of one game under the localStorage key 'game_sessions' *)
getGameSessionsFromStorage(sessions, gameType) == {s \in sessions : s.gameType = gameType}

(* the session with the id, of whatever game *)
getGameSessionFromStorage(sessions, sessionId) == {s \in sessions : s.id = sessionId}

(* a write that adds the session next to the stored session of its id *)
saveGameSessionToStorage_pushes(sessions, session) == sessions \cup {session}

(* the entry with the id of the session is replaced, else the session is added *)
saveGameSessionToStorage(sessions, session) ==
    {s \in sessions : s.id # session.id} \cup {session}

(* "Math.max(...allSessions.map(s => s.id)) + 1", or 1 *)
nextId(sessions, gameType) ==
    LET ids == {s.id : s \in getGameSessionsFromStorage(sessions, gameType)} IN
    IF ids = {} THEN 1 ELSE (CHOOSE m \in ids : \A n \in ids : n <= m) + 1

(* the session object saveGameSession builds from its arguments *)
GameSession(id, gameType, su, ps, history) ==
    [id |-> id, gameType |-> gameType, setup |-> JSON_stringify(su),
     players |-> JSON_stringify(ps), gameHistory |-> JSON_stringify(history)]

(* the effect after a handler that updates setup, players or gameHistory and *)
(* leaves currentSessionId at the given value                                *)
AutoSaveEffectWith(sessionId) ==
    /\ currentSessionId' = sessionId
    /\ timer' = Armed(setup', players')
    /\ issued' = 0
    /\ UNCHANGED <<saving, store, sheet>>

AutoSaveEffect == AutoSaveEffectWith(currentSessionId)

(* a handler that updates no dependency of the effect *)
NoAutoSaveEffect == UNCHANGED <<currentSessionId, timer, saving, issued, store, sheet>>

(* the component is unmounted: the cleanup clears the timer; a saveSession  *)
(* that awaits goes on, and its setCurrentSessionId has no effect           *)
Unmounted ==
    /\ currentSessionId' = 0
    /\ timer' = FALSE
    /\ saving' = [k \in DOMAIN saving |-> [saving[k] EXCEPT !.mounted = FALSE]]
    /\ issued' = 0
    /\ UNCHANGED <<store, sheet>>

NothingSaved ==
    /\ currentSessionId = 0
    /\ timer = FALSE
    /\ saving = <<>>
    /\ issued = 0
    /\ store = {}
    /\ sheet = {}

(* a failed save that stays in flight *)
Dropped_kept(calls, k) == calls

(* the k-th call has returned *)
Dropped(calls, k) == [j \in 1..(Len(calls) - 1) |-> IF j < k THEN calls[j] ELSE calls[j + 1]]

(* the timer of the effect fires: saveSession() up to the first await of     *)
(* saveGameSession.  Without a sessionId the id of the new session is taken  *)
(* from localStorage before the POST is awaited; with a sessionId the call   *)
(* awaits loadGameSession first (id 0: not known yet).                       *)
saveSession ==
    /\ timer
    /\ Len(saving) < MaxInFlight
    /\ timer' = FALSE
    /\ IF Armed(setup, players)
       THEN /\ currentSessionId = 0 => nextId(store, selectedGame) \in SessionIds
            /\ saving' = Append(saving, [gameType |-> selectedGame,
                                         setup |-> setup, players |-> players,
                                         gameHistory |-> gameHistory,
                                         sessionId |-> currentSessionId,
                                         id |-> IF currentSessionId = 0
                                                THEN nextId(store, selectedGame) ELSE 0,
                                         sessionGameType |-> selectedGame,
                                         mounted |-> TRUE])
            /\ issued' = IF issued = 0 THEN 1 ELSE 2
       ELSE UNCHANGED <<saving, issued>>
    /\ last' = "saveSession"
    /\ pre' = NoPre
    /\ UNCHANGED <<selectedGame, setup, players, showSetup, gameHistory, isCalculated,
                   validationError, editingRoundId, editingRoundPlayers, editModalError,
                   currentSessionId, store, sheet>>

(* saveGameSession with a sessionId, after "await loadGameSession(sessionId)": *)
(* the GET carries no accountId, the route answers 400 and the session is      *)
(* looked up in localStorage.  Found: "{...existing, ...}" keeps its id and    *)
(* game type.  Not found: "Session not found, create new".                     *)
saveGameSession_loaded ==
    /\ \E k \in DOMAIN saving :
          /\ saving[k].id = 0
          /\ LET existing == getGameSessionFromStorage(store, saving[k].sessionId) IN
             IF existing # {}
             THEN \E e \in existing :
                     saving' = [saving EXCEPT ![k].id = e.id,
                                              ![k].sessionGameType = e.gameType]
             ELSE /\ nextId(store, saving[k].gameType) \in SessionIds
                  /\ saving' = [saving EXCEPT ![k].id = nextId(store, saving[k].gameType)]
    /\ last' = "saveGameSession:loaded"
    /\ pre' = NoPre
    /\ UNCHANGED <<selectedGame, setup, players, showSetup, gameHistory, isCalculated,
                   validationError, editingRoundId, editingRoundPlayers, editModalError,
                   currentSessionId, timer, issued, store, sheet>>

(* the POST always carries "sessionId: session.id", so the route takes its  *)
(* update branch: a session of the game with that id in the sheet is        *)
(* overwritten and returned; otherwise the answer is 404 (or the server is  *)
(* not reached) and the session goes to localStorage.  Then                 *)
(* setCurrentSessionId(session.id); a new id runs the effect again.         *)
saveSession_resolved ==
    /\ \E k \in DOMAIN saving, reached \in BOOLEAN :
          LET call == saving[k]
              session == GameSession(call.id, call.sessionGameType, call.setup,
                                     call.players, call.gameHistory)
              existing == {s \in sheet : s.gameType = call.gameType /\ s.id = call.id}
          IN
          /\ call.id # 0
          /\ IF reached /\ existing # {}
             THEN /\ sheet' = (sheet \ existing) \cup
                                 {GameSession(call.id, call.gameType, call.setup,
                                              call.players, call.gameHistory)}
                  /\ UNCHANGED store
             ELSE /\ store' = saveGameSessionToStorage(store, session)
                  /\ UNCHANGED sheet
          /\ saving' = Dropped(saving, k)
          /\ IF call.mounted
             THEN /\ currentSessionId' = call.id
                  /\ timer' = IF call.id # currentSessionId THEN Armed(setup, players) ELSE timer
             ELSE UNCHANGED <<currentSessionId, timer>>
    /\ last' = "saveSession:resolved"
    /\ pre' = NoPre
    /\ UNCHANGED <<selectedGame, setup, players, showSetup, gameHistory, isCalculated,
                   validationError, editingRoundId, editingRoundPlayers, editModalError,
                   issued>>

(* saveGameSession throws: "catch (error) { console.error(...) }" *)
saveSession_rejected ==
    /\ \E k \in DOMAIN saving : saving' = Dropped(saving, k)
    /\ last' = "saveSession:rejected"
    /\ pre' = NoPre
    /\ UNCHANGED <<selectedGame, setup, players, showSetup, gameHistory, isCalculated,
                   validationError, editingRoundId, editingRoundPlayers, editModalError,
                   currentSessionId, timer, issued, store, sheet>>

---------------------------------------------------------------------------
(* The ledger operations the three calculators share (the code is repeated *)
(* verbatim in each component).                                            *)

(* a round numbered from the length of the ledger, not from the next place *)
NewRound_idFromLength(history, su, newPlayers, t) ==
    [id |-> Len(history), players |-> newPlayers, setup |-> su, timestamp |-> t]

(* a calculateMoney that never takes the recalculation branch *)
Recalculating_never(history, calculated) == FALSE

(* players.map(p => ({ ...p })) is a copy of the value: a round holds the *)
(* players as they are when the handler runs.                             *)
NewRound(history, su, newPlayers, t) ==
    [id |-> Len(history) + 1, players |-> newPlayers, setup |-> su, timestamp |-> t]

UpdatedRound(history, newPlayers, t) ==
    [history[Len(history)] EXCEPT !.players = newPlayers, !.timestamp = t]

(* "If recalculating, update the last round in history instead of adding" *)
Recalculating(history, calculated) == calculated /\ Len(history) > 0

Recorded(history, calculated, su, newPlayers, t) ==
    IF Recalculating(history, calculated)
    THEN SubSeq(history, 1, Len(history) - 1) \o <<UpdatedRound(history, newPlayers, t)>>
    ELSE Append(history, NewRound(history, su, newPlayers, t))

(* the cap of the model on the length of the ledger *)
RoomToRecord(history, calculated) ==
    Recalculating(history, calculated) \/ Len(history) < MaxRounds

(* an undo that leaves the ledger as it is *)
PreviousHistory_kept(history) == history

PreviousHistory(history) == SubSeq(history, 1, Len(history) - 1)

---------------------------------------------------------------------------
(* TienLenCalculator (Ladder) *)

TienLen_newSetup(n, rule, bet, l1, l2) ==
    IF rule = "nhat-an-het"
    THEN [numberOfPlayers |-> n, betAmount |-> bet, rule |-> rule]
    ELSE [numberOfPlayers |-> n, betAmount |-> 0, rule |-> rule,
          betLevel1 |-> l1, betLevel2 |-> l2]

TienLen_newPlayers(n) ==
    [i \in 1..n |-> [id |-> i, name |-> DefaultNames[i], position |-> Null,
                     money |-> 0, adjustments |-> 0]]

(* a reset that leaves the ledger in place *)
Emptied_kept(history) == history

(* resetGame: setGameHistory([]) *)
Emptied(history) == <<>>

(* a new round that leaves the adjustments in place *)
TienLen_cleared_keepsAdjustments(ps) ==
    [i \in DOMAIN ps |-> [ps[i] EXCEPT !.money = 0, !.position = Null]]

TienLen_cleared(ps) ==
    [i \in DOMAIN ps |-> [ps[i] EXCEPT !.money = 0, !.position = Null, !.adjustments = 0]]

(* a validation that misses the players without a position *)
HasNoPosition_never(p) == FALSE

HasNoPosition(p) == p.position = Null

(* a validation that looks at the first player only *)
TienLen_playersWithoutPosition_firstOnly(ps) ==
    Filter(SubSeq(ps, 1, 1), HasNoPosition)

TienLen_playersWithoutPosition(ps) == Filter(ps, HasNoPosition)

(* a selection that leaves the position with its previous holder *)
TienLen_positionChanged_keepsHolder(ps, playerId, position) ==
    [i \in DOMAIN ps |->
        IF ps[i].id = playerId
        THEN [ps[i] EXCEPT !.position = IF ps[i].position = position THEN Null ELSE position]
        ELSE ps[i]]

(* handlePositionChange: the updater given to setPlayers *)
TienLen_positionChanged(ps, playerId, position) ==
    LET cur == FirstIndex(ps, LAMBDA p : p.id = playerId) IN
    IF cur # 0 /\ ps[cur].position = position
    THEN [i \in DOMAIN ps |->
            IF ps[i].id = playerId THEN [ps[i] EXCEPT !.position = Null] ELSE ps[i]]
    ELSE [i \in DOMAIN ps |->
            IF ps[i].id = playerId THEN [ps[i] EXCEPT !.position = position]
            ELSE IF ps[i].position = position THEN [ps[i] EXCEPT !.position = Null]
            ELSE ps[i]]

(* the edit modal's position buttons: the updater given to setEditingRoundPlayers *)
TienLen_draftPositionChanged(ps, playerId, position) ==
    [i \in DOMAIN ps |->
        IF ps[i].id = playerId
        THEN [ps[i] EXCEPT !.position = IF ps[i].position = position THEN Null ELSE position]
        ELSE IF ps[i].position = position THEN [ps[i] EXCEPT !.position = Null]
        ELSE ps[i]]

TienLen_adjustmentChanged(ps, playerId, adjustment) ==
    [i \in DOMAIN ps |->
        IF ps[i].id = playerId THEN [ps[i] EXCEPT !.adjustments = adjustment] ELSE ps[i]]

(* a winner-takes-all rule under which the losers pay nothing *)
TienLen_ruleMoney_losersFree(su, ps, i) ==
    IF su.rule = "nhat-an-het"
    THEN IF ps[i].position = "nhat"
         THEN su.betAmount * (su.numberOfPlayers - 1)
         ELSE 0
    ELSE IF su.rule = "nhat-an-bet-nhi-an-ba" /\ su.betLevel1 # 0 /\ su.betLevel2 # 0
    THEN IF i = FirstIndex(ps, LAMBDA p : p.position = "nhat") THEN su.betLevel1
         ELSE IF i = FirstIndex(ps, LAMBDA p : p.position = "nhi") THEN su.betLevel2
         ELSE IF i = FirstIndex(ps, LAMBDA p : p.position = "bet") THEN -su.betLevel1
         ELSE IF i = FirstIndex(ps, LAMBDA p : p.position = "ba") THEN -su.betLevel2
         ELSE ps[i].money
    ELSE ps[i].money

(* a two-level rule that pairs nhat with ba and nhi with bet *)
TienLen_ruleMoney_pairsCrossed(su, ps, i) ==
    IF su.rule = "nhat-an-het"
    THEN IF ps[i].position = "nhat"
         THEN su.betAmount * (su.numberOfPlayers - 1)
         ELSE -su.betAmount
    ELSE IF su.rule = "nhat-an-bet-nhi-an-ba" /\ su.betLevel1 # 0 /\ su.betLevel2 # 0
    THEN IF i = FirstIndex(ps, LAMBDA p : p.position = "nhat") THEN su.betLevel1
         ELSE IF i = FirstIndex(ps, LAMBDA p : p.position = "nhi") THEN su.betLevel2
         ELSE IF i = FirstIndex(ps, LAMBDA p : p.position = "bet") THEN -su.betLevel2
         ELSE IF i = FirstIndex(ps, LAMBDA p : p.position = "ba") THEN -su.betLevel1
         ELSE ps[i].money
    ELSE ps[i].money

(* the rule branches of calculateMoney: what each player's money is set to *)
(* before the adjustments are added; a player no branch assigns keeps the  *)
(* money it had                                                            *)
TienLen_ruleMoney(su, ps, i) ==
    IF su.rule = "nhat-an-het"
    THEN IF ps[i].position = "nhat"
         THEN su.betAmount * (su.numberOfPlayers - 1)
         ELSE -su.betAmount
    ELSE IF su.rule = "nhat-an-bet-nhi-an-ba" /\ su.betLevel1 # 0 /\ su.betLevel2 # 0
    THEN IF i = FirstIndex(ps, LAMBDA p : p.position = "nhat") THEN su.betLevel1
         ELSE IF i = FirstIndex(ps, LAMBDA p : p.position = "nhi") THEN su.betLevel2
         ELSE IF i = FirstIndex(ps, LAMBDA p : p.position = "bet") THEN -su.betLevel1
         ELSE IF i = FirstIndex(ps, LAMBDA p : p.position = "ba") THEN -su.betLevel2
         ELSE ps[i].money
    ELSE ps[i].money

(* the rule, then "Apply adjustments": player.money += player.adjustments *)
TienLen_settle(su, ps) ==
    [i \in DOMAIN ps |->
        [ps[i] EXCEPT !.money = TienLen_ruleMoney(su, ps, i) + ps[i].adjustments]]

(* handleSaveRoundEdit: editingRoundPlayers.map(p => ({ ...p, money: 0 })) *)
TienLen_zeroed(ps) == [i \in DOMAIN ps |-> [ps[i] EXCEPT !.money = 0]]

(* gameHistory.find(r => r.id === roundId) *)
RoundIndex(history, roundId) == FirstIndex(history, LAMBDA r : r.id = roundId)

(* prev.map(r => r.id === editingRoundId ? { ...r, players, timestamp } : r) *)
TienLen_roundEdited(history, roundId, newPlayers, t) ==
    [k \in DOMAIN history |->
        IF history[k].id = roundId
        THEN [history[k] EXCEPT !.players = newPlayers, !.timestamp = t]
        ELSE history[k]]

(* prev.filter(r => r.id !== roundId) *)
(* a deletion that falls back on the last round when no round has the id *)
TienLen_roundDeleted_orLast(history, roundId) ==
    IF \E k \in DOMAIN history : history[k].id = roundId
    THEN Filter(history, LAMBDA r : r.id # roundId)
    ELSE SubSeq(history, 1, Len(history) - 1)

TienLen_roundDeleted(history, roundId) ==
    Filter(history, LAMBDA r : r.id # roundId)

(* the summary under the round list: playerTotals[p.id].total, the money *)
(* of the players with that id added over all rounds                      *)
RECURSIVE MoneyOf(_, _)
(* the summary's object of totals after one more player of a round; a *)
(* variant that keeps the name seen first                              *)
AddPlayer_keepsName(totals, p) ==
    IF p.id \in DOMAIN totals
    THEN [totals EXCEPT ![p.id] = [name |-> @.name, total |-> @.total + p.money]]
    ELSE totals @@ (p.id :> [name |-> p.name, total |-> p.money])

(* "if (playerTotals[p.id]) { total += p.money; name = p.name } else { ... }" *)
AddPlayer(totals, p) ==
    IF p.id \in DOMAIN totals
    THEN [totals EXCEPT ![p.id] = [name |-> p.name, total |-> @.total + p.money]]
    ELSE totals @@ (p.id :> [name |-> p.name, total |-> p.money])

RECURSIVE AddPlayers(_, _)
(* round.players.forEach *)
AddPlayers(totals, ps) ==
    IF ps = <<>> THEN totals
    ELSE AddPlayers(AddPlayer(totals, Head(ps)), Tail(ps))

RECURSIVE AddRounds(_, _)
(* gameHistory.forEach *)
AddRounds(totals, history) ==
    IF history = <<>> THEN totals
    ELSE AddRounds(AddPlayers(totals, Head(history).players), Tail(history))

RECURSIVE SortedById(_, _)
(* Object.entries(playerTotals).map(...).sort((a, b) => a.id - b.id) *)
SortedById(totals, ids) ==
    IF ids = {} THEN <<>>
    ELSE LET id == CHOOSE a \in ids : \A b \in ids : a <= b IN
         <<[id |-> id, name |-> totals[id].name, total |-> totals[id].total]>>
         \o SortedById(totals, ids \ {id})

(* the rows of the summary of all rounds *)
playerTotals(history) ==
    LET totals == AddRounds(<<>>, history) IN
    SortedById(totals, DOMAIN totals)

MoneyOf(ps, id) ==
    IF ps = <<>> THEN 0
    ELSE (IF Head(ps).id = id THEN Head(ps).money ELSE 0) + MoneyOf(Tail(ps), id)

RECURSIVE PlayerTotal(_, _)
PlayerTotal(history, id) ==
    IF history = <<>> THEN 0
    ELSE MoneyOf(Head(history).players, id) + PlayerTotal(Tail(history), id)

(* Inputs of a session: what the forms and buttons are given *)
TienLen_sizes == {2}
TienLen_bets == {5000}
TienLen_levels == {<<5000, 2000>>}
TienLen_positions == {"nhat", "bet"}
TienLen_adjusted == {1}
TienLen_adjustments == {0, 3000}
TienLen_roundIds == 1..(MaxRounds + 1)

(* the main screen is shown and no modal covers it *)
TienLen_onTable ==
    /\ selectedGame = "tien-len"
    /\ ~showSetup
    /\ editingRoundId = 0

TienLen_handleSetupSubmit ==
    /\ selectedGame = "tien-len"
    /\ showSetup
    /\ \E n \in TienLen_sizes, rule \in Rules, bet \in TienLen_bets, lv \in TienLen_levels :
          /\ setup' = TienLen_newSetup(n, rule, bet, lv[1], lv[2])
          /\ players' = TienLen_newPlayers(n)
    /\ showSetup' = FALSE
    /\ last' = "handleSetupSubmit"
    /\ pre' = NoPre
    /\ UNCHANGED <<selectedGame, gameHistory, isCalculated, validationError,
                   editingRoundId, editingRoundPlayers, editModalError>>
    /\ AutoSaveEffect

TienLen_handlePositionChange ==
    /\ TienLen_onTable
    /\ \E playerId \in Ids(players), position \in TienLen_positions :
          /\ players' = TienLen_positionChanged(players, playerId, position)
          /\ last' = IF \E i \in DOMAIN players :
                            players[i].id # playerId /\ players[i].position = position
                     THEN "handlePositionChange:taken"
                     ELSE "handlePositionChange"
    /\ pre' = NoPre
    /\ UNCHANGED <<selectedGame, setup, showSetup, gameHistory, isCalculated,
                   validationError, editingRoundId, editingRoundPlayers, editModalError>>
    /\ AutoSaveEffect

TienLen_handleAdjustmentChange ==
    /\ TienLen_onTable
    /\ \E playerId \in Ids(players) \cap TienLen_adjusted, adjustment \in TienLen_adjustments :
          players' = TienLen_adjustmentChanged(players, playerId, adjustment)
    /\ last' = "other"
    /\ pre' = NoPre
    /\ UNCHANGED <<selectedGame, setup, showSetup, gameHistory, isCalculated,
                   validationError, editingRoundId, editingRoundPlayers, editModalError>>
    /\ AutoSaveEffect

TienLen_calculateMoney ==
    /\ TienLen_onTable
    /\ setup # NoSetup
    /\ LET missing == TienLen_playersWithoutPosition(players) IN
       IF Len(missing) > 0
       THEN /\ validationError' = [kind |-> "position", count |-> Len(missing)]
            /\ last' = "calculateMoney:error"
            /\ pre' = NoPre
            /\ UNCHANGED <<selectedGame, setup, players, showSetup, gameHistory,
                           isCalculated, editingRoundId, editingRoundPlayers,
                           editModalError>>
            /\ NoAutoSaveEffect
       ELSE LET newPlayers == TienLen_settle(setup, players) IN
            /\ WithinCap(newPlayers)
            /\ RoomToRecord(gameHistory, isCalculated)
            /\ \E t \in Times :
                  gameHistory' = Recorded(gameHistory, isCalculated, setup, newPlayers, t)
            /\ players' = newPlayers
            /\ isCalculated' = TRUE
            /\ validationError' = NoError
            /\ last' = "calculateMoney"
            /\ pre' = [players |-> players, setup |-> setup]
            /\ UNCHANGED <<selectedGame, setup, showSetup, editingRoundId,
                           editingRoundPlayers, editModalError>>
            /\ AutoSaveEffect

(* setTimeout(() => setValidationError(null), 5000) *)
HideValidationError ==
    /\ validationError # NoError
    /\ validationError' = NoError
    /\ last' = "other"
    /\ pre' = NoPre
    /\ UNCHANGED <<selectedGame, setup, players, showSetup, gameHistory, isCalculated,
                   editingRoundId, editingRoundPlayers, editModalError>>
    /\ NoAutoSaveEffect

(* handleEditRound(roundId): "if (!round) return" when no round has the id *)
TienLen_handleEditRound ==
    /\ TienLen_onTable
    /\ \E roundId \in TienLen_roundIds :
          /\ IF RoundIndex(gameHistory, roundId) # 0
             THEN /\ editingRoundPlayers' = gameHistory[RoundIndex(gameHistory, roundId)].players
                  /\ editingRoundId' = roundId
             ELSE UNCHANGED <<editingRoundPlayers, editingRoundId>>
          /\ pre' = [roundId |-> roundId]
    /\ last' = "handleEditRound"
    /\ UNCHANGED <<selectedGame, setup, players, showSetup, gameHistory, isCalculated,
                   validationError, editModalError>>
    /\ NoAutoSaveEffect

TienLen_draftPosition ==
    /\ selectedGame = "tien-len"
    /\ editingRoundId # 0
    /\ \E playerId \in Ids(editingRoundPlayers), position \in TienLen_positions :
          editingRoundPlayers' =
              TienLen_draftPositionChanged(editingRoundPlayers, playerId, position)
    /\ last' = "other"
    /\ pre' = NoPre
    /\ UNCHANGED <<selectedGame, setup, players, showSetup, gameHistory, isCalculated,
                   validationError, editingRoundId, editModalError>>
    /\ NoAutoSaveEffect

TienLen_draftAdjustment ==
    /\ selectedGame = "tien-len"
    /\ editingRoundId # 0
    /\ \E playerId \in Ids(editingRoundPlayers) \cap TienLen_adjusted,
          adjustment \in TienLen_adjustments :
          editingRoundPlayers' =
              TienLen_adjustmentChanged(editingRoundPlayers, playerId, adjustment)
    /\ last' = "other"
    /\ pre' = NoPre
    /\ UNCHANGED <<selectedGame, setup, players, showSetup, gameHistory, isCalculated,
                   validationError, editingRoundId, editModalError>>
    /\ NoAutoSaveEffect

TienLen_closeEdit ==
    /\ selectedGame = "tien-len"
    /\ editingRoundId # 0
    /\ editingRoundId' = 0
    /\ editingRoundPlayers' = <<>>
    /\ editModalError' = NoError
    /\ last' = "closeEdit"
    /\ pre' = NoPre
    /\ UNCHANGED <<selectedGame, setup, players, showSetup, gameHistory, isCalculated,
                   validationError>>
    /\ NoAutoSaveEffect

TienLen_handleSaveRoundEdit ==
    /\ selectedGame = "tien-len"
    /\ editingRoundId # 0
    /\ setup # NoSetup
    /\ RoundIndex(gameHistory, editingRoundId) # 0
    /\ LET round == gameHistory[RoundIndex(gameHistory, editingRoundId)]
           missing == TienLen_playersWithoutPosition(editingRoundPlayers) IN
       IF Len(missing) > 0
       THEN /\ editModalError' = [kind |-> "position", count |-> Len(missing)]
            /\ last' = "handleSaveRoundEdit:error"
            /\ pre' = NoPre
            /\ UNCHANGED <<selectedGame, setup, players, showSetup, gameHistory,
                           isCalculated, validationError, editingRoundId,
                           editingRoundPlayers>>
            /\ NoAutoSaveEffect
       ELSE LET newPlayers == TienLen_settle(round.setup, TienLen_zeroed(editingRoundPlayers)) IN
            /\ WithinCap(newPlayers)
            /\ \E t \in Times :
                  gameHistory' = TienLen_roundEdited(gameHistory, editingRoundId, newPlayers, t)
            /\ editingRoundId' = 0
            /\ editingRoundPlayers' = <<>>
            /\ editModalError' = NoError
            /\ last' = "handleSaveRoundEdit"
            /\ pre' = NoPre
            /\ UNCHANGED <<selectedGame, setup, players, showSetup, isCalculated,
                           validationError>>
            /\ AutoSaveEffect

(* confirm() answered yes; answered no, the handler returns at once *)
TienLen_handleDeleteRound ==
    /\ TienLen_onTable
    /\ \E roundId \in TienLen_roundIds :
          /\ gameHistory' = TienLen_roundDeleted(gameHistory, roundId)
          /\ pre' = [roundId |-> roundId,
                     removedLast |-> (/\ Len(gameHistory) > 0
                                      /\ gameHistory[Len(gameHistory)].id = roundId)]
    /\ last' = "handleDeleteRound"
    /\ UNCHANGED <<selectedGame, setup, players, showSetup, isCalculated,
                   validationError, editingRoundId, editingRoundPlayers, editModalError>>
    /\ AutoSaveEffect

(* the button is rendered when isCalculated && gameHistory.length > 0 *)
TienLen_handleUndo ==
    /\ TienLen_onTable
    /\ isCalculated
    /\ Len(gameHistory) # 0
    /\ LET previousHistory == PreviousHistory(gameHistory) IN
       /\ gameHistory' = previousHistory
       /\ IF Len(previousHistory) > 0
          THEN LET lastRound == previousHistory[Len(previousHistory)] IN
               /\ players' = lastRound.players
               /\ setup' = lastRound.setup
          ELSE /\ players' = TienLen_cleared(players)
               /\ setup' = setup
    /\ isCalculated' = FALSE
    /\ pre' = IF last = "calculateMoney" THEN pre ELSE NoPre
    /\ last' = "handleUndo"
    /\ UNCHANGED <<selectedGame, showSetup, validationError, editingRoundId,
                   editingRoundPlayers, editModalError>>
    /\ AutoSaveEffect

(* the button is rendered when isCalculated *)
TienLen_handleNewRound ==
    /\ TienLen_onTable
    /\ isCalculated
    /\ players' = TienLen_cleared(players)
    /\ isCalculated' = FALSE
    /\ last' = "handleNewRound"
    /\ pre' = NoPre
    /\ UNCHANGED <<selectedGame, setup, showSetup, gameHistory, validationError,
                   editingRoundId, editingRoundPlayers, editModalError>>
    /\ AutoSaveEffect

TienLen_resetGame ==
    /\ TienLen_onTable
    /\ setup' = NoSetup
    /\ players' = <<>>
    /\ showSetup' = TRUE
    /\ gameHistory' = Emptied(gameHistory)
    /\ isCalculated' = FALSE
    /\ last' = "resetGame"
    /\ pre' = [rounds |-> Len(gameHistory)]
    /\ UNCHANGED <<selectedGame, validationError, editingRoundId, editingRoundPlayers,
                   editModalError>>
    /\ AutoSaveEffect

---------------------------------------------------------------------------
(* XiDachCalculator (Banker) *)

XiDach_newPlayers(n, housePlayerId) ==
    [i \in 1..n |-> [id |-> i, name |-> DefaultNames[i], isHouse |-> (i = housePlayerId),
                     betAmount |-> 0, result |-> Null, money |-> 0]]

(* a reset of the round that leaves the bets in place *)
XiDach_cleared_keepsBet(ps) ==
    [i \in DOMAIN ps |-> [ps[i] EXCEPT !.money = 0, !.result = Null]]

XiDach_cleared(ps) ==
    [i \in DOMAIN ps |-> [ps[i] EXCEPT !.money = 0, !.result = Null, !.betAmount = 0]]

IsHouse(p) == p.isHouse
NotHouse(p) == ~p.isHouse

XiDach_nonHousePlayers(ps) == Filter(ps, NotHouse)

(* a count of missing bets that forgets to leave the house out *)
XiDach_playersWithoutBet_withHouse(ps) ==
    Filter(ps, LAMBDA p : p.betAmount <= 0)

XiDach_playersWithoutBet(ps) ==
    Filter(XiDach_nonHousePlayers(ps), LAMBDA p : p.betAmount <= 0)

XiDach_playersWithoutResult(ps) ==
    Filter(XiDach_nonHousePlayers(ps), LAMBDA p : p.result = Null)

(* a change of house that leaves the flag with the previous house *)
XiDach_houseChanged_keepsOld(ps, playerId) ==
    [i \in DOMAIN ps |-> [ps[i] EXCEPT !.isHouse = (ps[i].isHouse \/ ps[i].id = playerId)]]

XiDach_houseChanged(ps, playerId) ==
    [i \in DOMAIN ps |-> [ps[i] EXCEPT !.isHouse = (ps[i].id = playerId)]]

(* what one non-house player gets *)
(* a settlement in which the player that wins pays its bet *)
XiDach_playerMoney_winPays(p) ==
    IF p.result = "win" THEN -p.betAmount
    ELSE IF p.result = "lose" THEN p.betAmount
    ELSE 0

XiDach_playerMoney(p) ==
    IF p.result = "win" THEN p.betAmount
    ELSE IF p.result = "lose" THEN -p.betAmount
    ELSE 0

(* a house that collects every bet, whatever the result *)
RECURSIVE XiDach_houseMoney_collectsAll(_)
XiDach_houseMoney_collectsAll(nonHouse) ==
    IF nonHouse = <<>> THEN 0
    ELSE XiDach_houseMoney_collectsAll(Tail(nonHouse)) + Head(nonHouse).betAmount

(* housePlayer.money after the loop over nonHousePlayers, from 0 *)
RECURSIVE XiDach_houseMoney(_)
XiDach_houseMoney(nonHouse) ==
    IF nonHouse = <<>> THEN 0
    ELSE XiDach_houseMoney(Tail(nonHouse)) - XiDach_playerMoney(Head(nonHouse))

(* calculateMoney from "Reset money for calculation" to the house update *)
XiDach_settle(ps) ==
    LET house == FirstIndex(ps, IsHouse) IN
    [i \in DOMAIN ps |->
        [ps[i] EXCEPT !.money =
            IF i = house THEN XiDach_houseMoney(XiDach_nonHousePlayers(ps))
            ELSE IF ps[i].isHouse THEN 0
            ELSE XiDach_playerMoney(ps[i])]]

XiDach_sizes == {2}
XiDach_bets == {5000}
XiDach_houses == {1}

XiDach_onTable ==
    /\ selectedGame = "xi-dach"
    /\ ~showSetup

XiDach_handleSetupSubmit ==
    /\ selectedGame = "xi-dach"
    /\ showSetup
    /\ \E numberOfPlayers \in XiDach_sizes :
       \E housePlayerId \in 1..numberOfPlayers :
          /\ setup' = [numberOfPlayers |-> numberOfPlayers, housePlayerId |-> housePlayerId]
          /\ players' = XiDach_newPlayers(numberOfPlayers, housePlayerId)
    /\ showSetup' = FALSE
    /\ isCalculated' = FALSE
    /\ gameHistory' = <<>>
    /\ validationError' = NoError
    /\ last' = "handleSetupSubmit"
    /\ pre' = NoPre
    /\ UNCHANGED <<selectedGame, editingRoundId, editingRoundPlayers, editModalError>>
    /\ AutoSaveEffect

(* handleHouseChange(playerId): no control of the rendered table calls it; *)
(* it is a command of the component like the others                      *)
XiDach_handleHouseChange ==
    /\ XiDach_onTable
    /\ setup # NoSetup
    /\ \E playerId \in XiDach_houses :
          /\ setup' = [setup EXCEPT !.housePlayerId = playerId]
          /\ players' = XiDach_houseChanged(players, playerId)
    /\ last' = "other"
    /\ pre' = NoPre
    /\ UNCHANGED <<selectedGame, showSetup, gameHistory, isCalculated, validationError,
                   editingRoundId, editingRoundPlayers, editModalError>>
    /\ AutoSaveEffect

(* the bet and result inputs are rendered for the players that are not the house *)
XiDach_handleBetAmountChange ==
    /\ XiDach_onTable
    /\ \E playerId \in Ids(XiDach_nonHousePlayers(players)), amount \in XiDach_bets :
          players' = [i \in DOMAIN players |->
                        IF players[i].id = playerId
                        THEN [players[i] EXCEPT !.betAmount = amount]
                        ELSE players[i]]
    /\ last' = "other"
    /\ pre' = NoPre
    /\ UNCHANGED <<selectedGame, setup, showSetup, gameHistory, isCalculated,
                   validationError, editingRoundId, editingRoundPlayers, editModalError>>
    /\ AutoSaveEffect

XiDach_handleResultChange ==
    /\ XiDach_onTable
    /\ \E playerId \in Ids(XiDach_nonHousePlayers(players)), result \in {"win", "lose"} :
          players' = [i \in DOMAIN players |->
                        IF players[i].id = playerId
                        THEN [players[i] EXCEPT !.result = result]
                        ELSE players[i]]
    /\ validationError' = NoError
    /\ last' = "other"
    /\ pre' = NoPre
    /\ UNCHANGED <<selectedGame, setup, showSetup, gameHistory, isCalculated,
                   editingRoundId, editingRoundPlayers, editModalError>>
    /\ AutoSaveEffect

XiDach_calculateMoney ==
    /\ XiDach_onTable
    /\ setup # NoSetup
    /\ FirstIndex(players, IsHouse) # 0
    /\ LET withoutBet == XiDach_playersWithoutBet(players)
           withoutResult == XiDach_playersWithoutResult(players) IN
       IF Len(withoutBet) > 0
       THEN /\ validationError' = [kind |-> "bet", count |-> Len(withoutBet)]
            /\ last' = "calculateMoney:error"
            /\ pre' = NoPre
            /\ UNCHANGED <<selectedGame, setup, players, showSetup, gameHistory,
                           isCalculated, editingRoundId, editingRoundPlayers,
                           editModalError>>
            /\ NoAutoSaveEffect
       ELSE IF Len(withoutResult) > 0
       THEN /\ validationError' = [kind |-> "result", count |-> Len(withoutResult)]
            /\ last' = "calculateMoney:error"
            /\ pre' = NoPre
            /\ UNCHANGED <<selectedGame, setup, players, showSetup, gameHistory,
                           isCalculated, editingRoundId, editingRoundPlayers,
                           editModalError>>
            /\ NoAutoSaveEffect
       ELSE LET newPlayers == XiDach_settle(players) IN
            /\ WithinCap(newPlayers)
            /\ RoomToRecord(gameHistory, isCalculated)
            /\ \E t \in Times :
                  gameHistory' = Recorded(gameHistory, isCalculated, setup, newPlayers, t)
            /\ players' = newPlayers
            /\ isCalculated' = TRUE
            /\ validationError' = NoError
            /\ last' = "calculateMoney"
            /\ pre' = [players |-> players, setup |-> setup]
            /\ UNCHANGED <<selectedGame, setup, showSetup, editingRoundId,
                           editingRoundPlayers, editModalError>>
            /\ AutoSaveEffect

XiDach_handleUndo ==
    /\ XiDach_onTable
    /\ isCalculated
    /\ Len(gameHistory) # 0
    /\ LET previousHistory == PreviousHistory(gameHistory) IN
       /\ gameHistory' = previousHistory
       /\ IF Len(previousHistory) > 0
          THEN LET lastRound == previousHistory[Len(previousHistory)] IN
               /\ players' = lastRound.players
               /\ setup' = lastRound.setup
          ELSE /\ players' = XiDach_cleared(players)
               /\ setup' = setup
    /\ isCalculated' = FALSE
    /\ validationError' = NoError
    /\ pre' = IF last = "calculateMoney" THEN pre ELSE NoPre
    /\ last' = "handleUndo"
    /\ UNCHANGED <<selectedGame, showSetup, editingRoundId, editingRoundPlayers,
                   editModalError>>
    /\ AutoSaveEffect

XiDach_handleNewRound ==
    /\ XiDach_onTable
    /\ isCalculated
    /\ players' = XiDach_cleared(players)
    /\ isCalculated' = FALSE
    /\ validationError' = NoError
    /\ last' = "handleNewRound"
    /\ pre' = NoPre
    /\ UNCHANGED <<selectedGame, setup, showSetup, gameHistory, editingRoundId,
                   editingRoundPlayers, editModalError>>
    /\ AutoSaveEffect

XiDach_resetGame ==
    /\ XiDach_onTable
    /\ setup' = NoSetup
    /\ players' = <<>>
    /\ showSetup' = TRUE
    /\ gameHistory' = Emptied(gameHistory)
    /\ isCalculated' = FALSE
    /\ validationError' = NoError
    /\ last' = "resetGame"
    /\ pre' = [rounds |-> Len(gameHistory)]
    /\ UNCHANGED <<selectedGame, editingRoundId, editingRoundPlayers, editModalError>>
    /\ AutoSaveEffectWith(0)

---------------------------------------------------------------------------
(* KachTeCalculator (Pot) *)

(* a table laid with one seat more than the setup says *)
KachTe_newPlayers_extra(n) ==
    [i \in 1..(n + 1) |-> [id |-> i, name |-> DefaultNames[i], isWinner |-> FALSE,
                           winType |-> Null, money |-> 0]]

KachTe_newPlayers(n) ==
    [i \in 1..n |-> [id |-> i, name |-> DefaultNames[i], isWinner |-> FALSE,
                     winType |-> Null, money |-> 0]]

KachTe_cleared(ps) ==
    [i \in DOMAIN ps |-> [ps[i] EXCEPT !.money = 0, !.isWinner = FALSE, !.winType = Null]]

(* a choice of winner that leaves the previous winner flagged *)
KachTe_winnerChanged_keepsOthers(ps, playerId, winType) ==
    [i \in DOMAIN ps |->
        IF ps[i].id = playerId
        THEN [ps[i] EXCEPT !.isWinner = (winType # Null), !.winType = winType]
        ELSE ps[i]]

KachTe_winnerChanged(ps, playerId, winType) ==
    [i \in DOMAIN ps |->
        IF ps[i].id = playerId
        THEN [ps[i] EXCEPT !.isWinner = (winType # Null), !.winType = winType]
        ELSE [ps[i] EXCEPT !.isWinner = FALSE, !.winType = Null]]

(* players.find(p => p.isWinner && p.winType) *)
KachTe_winner(ps) == FirstIndex(ps, LAMBDA p : p.isWinner /\ p.winType # Null)

(* a settlement that pays the default bet for either win type *)
KachTe_betAmount_defaultOnly(su, winType) == su.defaultBetAmount

KachTe_betAmount(su, winType) ==
    IF winType = "sap-lang" THEN su.sapLangBetAmount ELSE su.defaultBetAmount

(* a winner paid by every seat of the table, its own included *)
KachTe_settle_paidByAll(su, ps) ==
    LET winner == KachTe_winner(ps)
        betAmount == KachTe_betAmount(su, ps[winner].winType) IN
    [i \in DOMAIN ps |->
        [ps[i] EXCEPT !.money =
            IF ~ps[i].isWinner THEN -betAmount
            ELSE IF i = winner THEN su.numberOfPlayers * betAmount
            ELSE 0]]

(* calculateMoney from "Reset money for calculation" to the winner update *)
KachTe_settle(su, ps) ==
    LET winner == KachTe_winner(ps)
        betAmount == KachTe_betAmount(su, ps[winner].winType) IN
    [i \in DOMAIN ps |->
        [ps[i] EXCEPT !.money =
            IF ~ps[i].isWinner THEN -betAmount
            ELSE IF i = winner THEN (su.numberOfPlayers - 1) * betAmount
            ELSE 0]]

KachTe_sizes == {2, 3}
KachTe_defaultBets == {2000}
KachTe_sapLangBets == {5000}

KachTe_onTable ==
    /\ selectedGame = "kach-te"
    /\ ~showSetup

KachTe_handleSetupSubmit ==
    /\ selectedGame = "kach-te"
    /\ showSetup
    /\ \E numberOfPlayers \in KachTe_sizes, defaultBetAmount \in KachTe_defaultBets,
          sapLangBetAmount \in KachTe_sapLangBets :
          /\ setup' = [numberOfPlayers |-> numberOfPlayers,
                       defaultBetAmount |-> defaultBetAmount,
                       sapLangBetAmount |-> sapLangBetAmount]
          /\ players' = KachTe_newPlayers(numberOfPlayers)
    /\ showSetup' = FALSE
    /\ isCalculated' = FALSE
    /\ gameHistory' = <<>>
    /\ validationError' = NoError
    /\ last' = "handleSetupSubmit"
    /\ pre' = NoPre
    /\ UNCHANGED <<selectedGame, editingRoundId, editingRoundPlayers, editModalError>>
    /\ AutoSaveEffect

KachTe_handleWinnerChange ==
    /\ KachTe_onTable
    /\ \E playerId \in Ids(players), winType \in {"normal", "sap-lang", Null} :
          players' = KachTe_winnerChanged(players, playerId, winType)
    /\ validationError' = NoError
    /\ last' = "other"
    /\ pre' = NoPre
    /\ UNCHANGED <<selectedGame, setup, showSetup, gameHistory, isCalculated,
                   editingRoundId, editingRoundPlayers, editModalError>>
    /\ AutoSaveEffect

KachTe_calculateMoney ==
    /\ KachTe_onTable
    /\ setup # NoSetup
    /\ IF KachTe_winner(players) = 0
       THEN /\ validationError' = [kind |-> "winner"]
            /\ last' = "calculateMoney:error"
            /\ pre' = NoPre
            /\ UNCHANGED <<selectedGame, setup, players, showSetup, gameHistory,
                           isCalculated, editingRoundId, editingRoundPlayers,
                           editModalError>>
            /\ NoAutoSaveEffect
       ELSE LET newPlayers == KachTe_settle(setup, players) IN
            /\ WithinCap(newPlayers)
            /\ RoomToRecord(gameHistory, isCalculated)
            /\ \E t \in Times :
                  gameHistory' = Recorded(gameHistory, isCalculated, setup, newPlayers, t)
            /\ players' = newPlayers
            /\ isCalculated' = TRUE
            /\ validationError' = NoError
            /\ last' = "calculateMoney"
            /\ pre' = [players |-> players, setup |-> setup]
            /\ UNCHANGED <<selectedGame, setup, showSetup, editingRoundId,
                           editingRoundPlayers, editModalError>>
            /\ AutoSaveEffect

KachTe_handleUndo ==
    /\ KachTe_onTable
    /\ isCalculated
    /\ Len(gameHistory) # 0
    /\ LET previousHistory == PreviousHistory(gameHistory) IN
       /\ gameHistory' = previousHistory
       /\ IF Len(previousHistory) > 0
          THEN LET lastRound == previousHistory[Len(previousHistory)] IN
               /\ players' = lastRound.players
               /\ setup' = lastRound.setup
          ELSE /\ players' = KachTe_cleared(players)
               /\ setup' = setup
    /\ isCalculated' = FALSE
    /\ validationError' = NoError
    /\ pre' = IF last = "calculateMoney" THEN pre ELSE NoPre
    /\ last' = "handleUndo"
    /\ UNCHANGED <<selectedGame, showSetup, editingRoundId, editingRoundPlayers,
                   editModalError>>
    /\ AutoSaveEffect

(* a new round that clears the players of the last round of the ledger too, *)
(* as if the round shared its player objects with the table                 *)
KachTe_handleNewRound_sharedPlayers ==
    /\ KachTe_onTable
    /\ isCalculated
    /\ players' = KachTe_cleared(players)
    /\ gameHistory' = [k \in DOMAIN gameHistory |->
                          IF k = Len(gameHistory)
                          THEN [gameHistory[k] EXCEPT !.players = KachTe_cleared(@)]
                          ELSE gameHistory[k]]
    /\ isCalculated' = FALSE
    /\ validationError' = NoError
    /\ last' = "handleNewRound"
    /\ pre' = NoPre
    /\ UNCHANGED <<selectedGame, setup, showSetup, editingRoundId,
                   editingRoundPlayers, editModalError>>
    /\ AutoSaveEffect

KachTe_handleNewRound ==
    /\ KachTe_onTable
    /\ isCalculated
    /\ players' = KachTe_cleared(players)
    /\ isCalculated' = FALSE
    /\ validationError' = NoError
    /\ last' = "handleNewRound"
    /\ pre' = NoPre
    /\ UNCHANGED <<selectedGame, setup, showSetup, gameHistory, editingRoundId,
                   editingRoundPlayers, editModalError>>
    /\ AutoSaveEffect

KachTe_resetGame ==
    /\ KachTe_onTable
    /\ setup' = NoSetup
    /\ players' = <<>>
    /\ showSetup' = TRUE
    /\ gameHistory' = Emptied(gameHistory)
    /\ isCalculated' = FALSE
    /\ validationError' = NoError
    /\ last' = "resetGame"
    /\ pre' = [rounds |-> Len(gameHistory)]
    /\ UNCHANGED <<selectedGame, editingRoundId, editingRoundPlayers, editModalError>>
    /\ AutoSaveEffectWith(0)

---------------------------------------------------------------------------
(* GameMenu *)

Mounted ==
    /\ setup = NoSetup
    /\ players = <<>>
    /\ showSetup = TRUE
    /\ gameHistory = <<>>
    /\ isCalculated = FALSE
    /\ validationError = NoError
    /\ editingRoundId = 0
    /\ editingRoundPlayers = <<>>
    /\ editModalError = NoError

handleGameClick ==
    /\ selectedGame = Null
    /\ \E gameId \in Games : selectedGame' = gameId
    /\ last' = "handleGameClick"
    /\ UNCHANGED <<setup, players, showSetup, gameHistory, isCalculated,
                   validationError, editingRoundId, editingRoundPlayers,
                   editModalError, pre>>
    /\ NoAutoSaveEffect

(* onBack: the calculator is unmounted and its state is dropped; the next *)
(* calculator mounts with the initial values of its useState calls        *)
handleBack ==
    /\ selectedGame # Null
    /\ editingRoundId = 0
    /\ selectedGame' = Null
    /\ setup' = NoSetup
    /\ players' = <<>>
    /\ showSetup' = TRUE
    /\ gameHistory' = <<>>
    /\ isCalculated' = FALSE
    /\ validationError' = NoError
    /\ editingRoundId' = 0
    /\ editingRoundPlayers' = <<>>
    /\ editModalError' = NoError
    /\ last' = "handleBack"
    /\ pre' = NoPre
    /\ Unmounted

Init ==
    /\ selectedGame = Null
    /\ Mounted
    /\ NothingSaved
    /\ last = "init"
    /\ pre = NoPre

Next ==
    \/ handleGameClick
    \/ handleBack
    \/ HideValidationError
    \/ TienLen_handleSetupSubmit
    \/ TienLen_handlePositionChange
    \/ TienLen_handleAdjustmentChange
    \/ TienLen_calculateMoney
    \/ TienLen_handleUndo
    \/ TienLen_handleNewRound
    \/ TienLen_resetGame
    \/ XiDach_handleSetupSubmit
    \/ XiDach_handleHouseChange
    \/ XiDach_handleBetAmountChange
    \/ XiDach_handleResultChange
    \/ XiDach_calculateMoney
    \/ XiDach_handleUndo
    \/ XiDach_handleNewRound
    \/ XiDach_resetGame
    \/ KachTe_handleSetupSubmit
    \/ KachTe_handleWinnerChange
    \/ KachTe_calculateMoney
    \/ KachTe_handleUndo
    \/ KachTe_handleNewRound
    \/ KachTe_resetGame

Spec == Init /\ [][Next]_vars

---------------------------------------------------------------------------
(* A Ladder table right after handleSetupSubmit, and the commands of the
   round list: the edit modal and the delete button next to calculate,
   new round and undo. *)

InitEdit ==
    /\ selectedGame = "tien-len"
    /\ \E numberOfPlayers \in TienLen_sizes, gameRule \in Rules,
          betAmount \in TienLen_bets, levels \in TienLen_levels :
          /\ setup = TienLen_newSetup(numberOfPlayers, gameRule, betAmount,
                                      levels[1], levels[2])
          /\ players = TienLen_newPlayers(numberOfPlayers)
    /\ showSetup = FALSE
    /\ gameHistory = <<>>
    /\ isCalculated = FALSE
    /\ validationError = NoError
    /\ editingRoundId = 0
    /\ editingRoundPlayers = <<>>
    /\ editModalError = NoError
    /\ last = "handleSetupSubmit"
    /\ pre = NoPre
    /\ currentSessionId = 0
    /\ timer = TRUE
    /\ saving = <<>>
    /\ issued = 0
    /\ store = {}
    /\ sheet = {}

NextEdit ==
    \/ TienLen_handlePositionChange
    \/ TienLen_calculateMoney
    \/ TienLen_handleNewRound
    \/ TienLen_handleUndo
    \/ TienLen_handleDeleteRound
    \/ TienLen_handleEditRound
    \/ TienLen_draftPosition
    \/ TienLen_draftAdjustment
    \/ TienLen_closeEdit
    \/ TienLen_handleSaveRoundEdit

SpecEdit == InitEdit /\ [][NextEdit]_vars

---------------------------------------------------------------------------
(* Settlement alone: a table of any size with any input the handlers can   *)
(* leave in the players, and calculateMoney (pressed once or again).       *)

Min(a, b) == IF a < b THEN a ELSE b

(* handlePositionChange keeps a position with at most one player *)
Settle_positions(n) ==
    {f \in [1..n -> Positions \cup {Null}] :
        \A i, j \in 1..n : (i # j /\ f[i] # Null) => f[i] # f[j]}

Settle_sizes == MinPlayers..MaxPlayers
Settle_TienLen_sizes == MinPlayers..Min(MaxPlayers, TienLenMaxPlayers)
Settle_TienLen_bets == {0, 5000}
Settle_TienLen_levels == {<<5000, 2000>>, <<0, 2000>>, <<5000, 0>>}
Settle_adjustments == {0, 1000}
Settle_XiDach_bets == {0, 3000, 5000}
Settle_XiDach_results == {Null, "win", "lose"}
Settle_KachTe_defaultBets == {0, 2000}
Settle_KachTe_sapLangBets == {0, 5000}

Settle_TienLen_players(n) ==
    {[i \in 1..n |-> [TienLen_newPlayers(n)[i] EXCEPT
                        !.position = position[i], !.adjustments = adjustments[i]]] :
        position \in Settle_positions(n), adjustments \in [1..n -> Settle_adjustments]}

(* handleBetAmountChange and handleResultChange reach the players that are *)
(* not the house                                                           *)
Settle_XiDach_players(n, housePlayerId) ==
    {[i \in 1..n |-> IF i = housePlayerId
                     THEN XiDach_newPlayers(n, housePlayerId)[i]
                     ELSE [XiDach_newPlayers(n, housePlayerId)[i] EXCEPT
                             !.betAmount = betAmount[i], !.result = result[i]]] :
        betAmount \in [1..n -> Settle_XiDach_bets],
        result \in [1..n -> Settle_XiDach_results]}

(* handleWinnerChange leaves no winner or one winner with its win type *)
Settle_KachTe_players(n) ==
    {KachTe_newPlayers(n)} \cup
    {KachTe_winnerChanged(KachTe_newPlayers(n), playerId, winType) :
        playerId \in 1..n, winType \in {"normal", "sap-lang"}}

InitSettle ==
    /\ \/ /\ selectedGame = "tien-len"
          /\ \E n \in Settle_TienLen_sizes, rule \in Rules,
                bet \in Settle_TienLen_bets, lv \in Settle_TienLen_levels :
                /\ setup = TienLen_newSetup(n, rule, bet, lv[1], lv[2])
                /\ players \in Settle_TienLen_players(n)
       \/ /\ selectedGame = "xi-dach"
          /\ \E numberOfPlayers \in Settle_sizes :
             \E housePlayerId \in 1..numberOfPlayers :
                /\ setup = [numberOfPlayers |-> numberOfPlayers,
                            housePlayerId |-> housePlayerId]
                /\ players \in Settle_XiDach_players(numberOfPlayers, housePlayerId)
       \/ /\ selectedGame = "kach-te"
          /\ \E numberOfPlayers \in Settle_sizes,
                defaultBetAmount \in Settle_KachTe_defaultBets,
                sapLangBetAmount \in Settle_KachTe_sapLangBets :
                /\ setup = [numberOfPlayers |-> numberOfPlayers,
                            defaultBetAmount |-> defaultBetAmount,
                            sapLangBetAmount |-> sapLangBetAmount]
                /\ players \in Settle_KachTe_players(numberOfPlayers)
    /\ showSetup = FALSE
    /\ gameHistory = <<>>
    /\ isCalculated = FALSE
    /\ validationError = NoError
    /\ editingRoundId = 0
    /\ editingRoundPlayers = <<>>
    /\ editModalError = NoError
    /\ last = "other"
    /\ pre = NoPre
    /\ currentSessionId = 0
    /\ timer = TRUE
    /\ saving = <<>>
    /\ issued = 0
    /\ store = {}
    /\ sheet = {}

NextSettle ==
    \/ TienLen_calculateMoney
    \/ XiDach_calculateMoney
    \/ KachTe_calculateMoney

SpecSettle == InitSettle /\ [][NextSettle]_vars

---------------------------------------------------------------------------
(* Properties of the settlement *)

LastRound == gameHistory[Len(gameHistory)]

Settled(game) == selectedGame = game /\ last = "calculateMoney"

RECURSIVE SumBase(_)
SumBase(ps) ==
    IF ps = <<>> THEN 0
    ELSE (Head(ps).money - Head(ps).adjustments) + SumBase(Tail(ps))

(* C1: Ladder, rule nhat-an-het: after a calculateMoney that passes the   *)
(* validation, the money of all players minus their adjustments sums to 0, *)
(* for every table size, bet and accepted assignment of positions.         *)
C1_LadderZeroSum ==
    (Settled("tien-len") /\ setup.rule = "nhat-an-het") => SumBase(players) = 0

(* C2: Banker: after a successful calculateMoney the money of all players, *)
(* the house included, sums to 0, in the players and in the recorded round. *)
C2_BankerZeroSum ==
    Settled("xi-dach") =>
        /\ SumMoney(players) = 0
        /\ SumMoney(LastRound.players) = 0

C2_Witness ==
    /\ Settled("xi-dach")
    /\ \E i, j \in DOMAIN players :
          /\ players[i].result = "win"
          /\ players[j].result = "lose"
          /\ players[i].betAmount > players[j].betAmount
          /\ players[j].betAmount > 0

(* C3: Pot: after a successful calculateMoney the money of all players     *)
(* sums to 0, whoever wins, with either win type and any pair of bets.     *)
C3_PotZeroSum ==
    Settled("kach-te") =>
        /\ SumMoney(players) = 0
        /\ SumMoney(LastRound.players) = 0

C3_Witness ==
    /\ Settled("kach-te")
    /\ Len(players) > 2
    /\ \E i \in DOMAIN players :
          /\ players[i].winType = "sap-lang"
          /\ players[i].money > 0

---------------------------------------------------------------------------
(* Properties of the commands *)

(* the inputs of the players: everything but the money *)
Inputs(ps) == [i \in DOMAIN ps |-> [ps[i] EXCEPT !.money = 0]]

Moneys(ps) == [i \in DOMAIN ps |-> ps[i].money]

(* C4: calculateMoney pressed again with the same inputs and setup leaves  *)
(* the length of the ledger and the money of every player as they are, in  *)
(* the players and in the last round, in every game and for every setup    *)
(* the form accepts.                                                       *)
C4_IdempotentRecompute ==
    [][(/\ last = "calculateMoney"
        /\ last' = "calculateMoney"
        /\ Inputs(players') = Inputs(players)
        /\ setup' = setup)
        => /\ Len(gameHistory') = Len(gameHistory)
           /\ Moneys(players') = Moneys(players)
           /\ Moneys(gameHistory'[Len(gameHistory')].players) = Moneys(LastRound.players)]_vars

(* the players of a table with the money and the inputs of the round cleared *)
Blank(ps) ==
    [i \in DOMAIN ps |->
        CASE selectedGame = "tien-len" ->
                [ps[i] EXCEPT !.money = 0, !.position = Null, !.adjustments = 0]
          [] selectedGame = "xi-dach" ->
                [ps[i] EXCEPT !.money = 0, !.result = Null, !.betAmount = 0]
          [] OTHER ->
                [ps[i] EXCEPT !.money = 0, !.isWinner = FALSE, !.winType = Null]]

UndoAfterCalculate == last = "calculateMoney" /\ last' = "handleUndo"

(* C5 as stated: calculateMoney followed by handleUndo gives players and  *)
(* setup the values they had right before calculateMoney, and the ledger   *)
(* is one round shorter than after calculateMoney.                         *)
C5_UndoInverse ==
    [][UndoAfterCalculate
        => /\ players' = pre.players
           /\ setup' = pre.setup
           /\ Len(gameHistory') = Len(gameHistory) - 1]_vars

(* C5 amended: calculateMoney followed by handleUndo leaves the ledger one *)
(* round shorter; players and setup become those of the round that is now  *)
(* last, or, when the ledger is empty, the players with money and inputs   *)
(* cleared and the setup as it was.                                        *)
C5_UndoRestoresSnapshot ==
    [][UndoAfterCalculate
        => /\ Len(gameHistory') = Len(gameHistory) - 1
           /\ IF Len(gameHistory') > 0
              THEN /\ players' = gameHistory'[Len(gameHistory')].players
                   /\ setup' = gameHistory'[Len(gameHistory')].setup
              ELSE /\ players' = Blank(players)
                   /\ setup' = setup]_vars

C5_Witness ==
    /\ last = "handleUndo"
    /\ pre # NoPre
    /\ Len(gameHistory) > 0
    /\ players = LastRound.players
    /\ players # pre.players

(* what each game requires of the players before it settles *)
Incomplete ==
    CASE selectedGame = "tien-len" ->
            \E i \in DOMAIN players : players[i].position \notin Positions
      [] selectedGame = "xi-dach" ->
            \E i \in DOMAIN players :
                /\ ~players[i].isHouse
                /\ \/ players[i].betAmount <= 0
                   \/ players[i].result \notin {"win", "lose"}
      [] selectedGame = "kach-te" ->
            ~\E i \in DOMAIN players :
                players[i].isWinner /\ players[i].winType \in {"normal", "sap-lang"}
      [] OTHER -> FALSE

CalculatePressed == last' \in {"calculateMoney", "calculateMoney:error"}

(* C7: calculateMoney on incomplete input shows an error and leaves the    *)
(* ledger, the players (money and inputs), the setup and isCalculated as   *)
(* they were.                                                              *)
C7_IncompleteChangesNothing ==
    [][(CalculatePressed /\ Incomplete)
        => /\ validationError' # NoError
           /\ UNCHANGED <<gameHistory, players, setup, isCalculated>>]_vars

C7_Witness ==
    /\ last = "calculateMoney:error"
    /\ Len(gameHistory) > 0
    /\ isCalculated
    /\ \E i \in DOMAIN players : players[i].money # 0

NoBet == {i \in DOMAIN players : ~players[i].isHouse /\ players[i].betAmount <= 0}
NoResult == {i \in DOMAIN players : ~players[i].isHouse /\ players[i].result = Null}
NoPosition == {i \in DOMAIN players : players[i].position = Null}

Rejected(game) == selectedGame = game /\ last = "calculateMoney:error"

(* C8 as stated: the count of the error is the number of players that lack *)
(* a required input; in the Banker game a player that is not the house and *)
(* lacks a positive bet or a result is counted.                            *)
C8_ErrorCount ==
    /\ Rejected("tien-len") => validationError.count = Cardinality(NoPosition)
    /\ Rejected("xi-dach") => validationError.count = Cardinality(NoBet \cup NoResult)

(* C8 amended: Ladder counts the players with no position.  Banker counts  *)
(* the players other than the house that lack a positive bet when there is *)
(* one, and otherwise those that lack a result.                            *)
C8_ErrorCountByField ==
    /\ Rejected("tien-len") => validationError.count = Cardinality(NoPosition)
    /\ Rejected("xi-dach") =>
          validationError.count =
             IF NoBet # {} THEN Cardinality(NoBet) ELSE Cardinality(NoResult)

C8_Witness ==
    /\ Rejected("xi-dach")
    /\ NoBet # {}
    /\ NoResult \ NoBet # {}
    /\ validationError.count = 1

UniquePositions ==
    \A i, j \in DOMAIN players :
        (i # j /\ players[i].position # Null) => players[i].position # players[j].position

(* C9: in a Ladder session no two players hold the same position, and a   *)
(* selection of a position for a player clears it from the player that     *)
(* held it.                                                                *)
C9_PositionUniqueness ==
    /\ [](selectedGame = "tien-len" => UniquePositions)
    /\ [][(selectedGame = "tien-len"
           /\ last' \in {"handlePositionChange", "handlePositionChange:taken"})
          => \A i, j \in DOMAIN players :
                (/\ i # j
                 /\ players'[i].position # Null
                 /\ players'[i].position # players[i].position
                 /\ players[j].position = players'[i].position)
                => players'[j].position = Null]_vars

C9_Witness ==
    /\ selectedGame = "tien-len"
    /\ last = "handlePositionChange:taken"
    /\ \E i, j \in DOMAIN players :
          players[i].position # Null /\ players[j].position = Null

(* C10: in a Banker session with players exactly one player is the house. *)
C10_OneHouse ==
    (selectedGame = "xi-dach" /\ players # <<>>) =>
        Cardinality({i \in DOMAIN players : players[i].isHouse}) = 1

C10_Witness ==
    /\ selectedGame = "xi-dach"
    /\ Len(gameHistory) > 0
    /\ \E i \in DOMAIN players :
          /\ players[i].isHouse
          /\ players[i].id # LastRound.setup.housePlayerId
          /\ players[i].betAmount > 0

---------------------------------------------------------------------------
(* Properties of the round list *)

(* C6: a successful handleSaveRoundEdit of round k changes the players and *)
(* the timestamp of that one round: the ledger keeps its length, every     *)
(* other round is as it was, round k keeps its id and setup, and the total *)
(* of each player changes by the change of its money in round k.           *)
C6_EditIsolation ==
    [][last' = "handleSaveRoundEdit"
        => LET k == RoundIndex(gameHistory, editingRoundId) IN
           /\ Len(gameHistory') = Len(gameHistory)
           /\ \A i \in DOMAIN gameHistory :
                 i # k => gameHistory'[i] = gameHistory[i]
           /\ gameHistory'[k].id = gameHistory[k].id
           /\ gameHistory'[k].setup = gameHistory[k].setup
           /\ \A id \in Ids(gameHistory[k].players) :
                 PlayerTotal(gameHistory', id) - PlayerTotal(gameHistory, id)
                    = MoneyOf(gameHistory'[k].players, id)
                      - MoneyOf(gameHistory[k].players, id)]_vars

---------------------------------------------------------------------------
(* Properties of the ledger *)

(* C11: in a Pot session at most one player is flagged isWinner, and a    *)
(* player is flagged exactly when its winType is set.                      *)
C11_OneWinner ==
    selectedGame = "kach-te" =>
        /\ Cardinality({i \in DOMAIN players : players[i].isWinner}) <= 1
        /\ \A i \in DOMAIN players : players[i].isWinner <=> players[i].winType # Null

C11_Witness ==
    /\ selectedGame = "kach-te"
    /\ \E i, j \in DOMAIN players :
          /\ players[i].isWinner
          /\ players[i].money < 0
          /\ players[j].money > 0
          /\ ~players[j].isWinner

(* C12: every round of the ledger holds as many players as its setup says. *)
C12_RoundSize ==
    \A k \in DOMAIN gameHistory :
        Len(gameHistory[k].players) = gameHistory[k].setup.numberOfPlayers

C12_Witness ==
    /\ Len(gameHistory) = 2
    /\ Len(gameHistory[1].players) > 2
    /\ gameHistory[2].players # gameHistory[1].players

(* C13: a successful calculateMoney while isCalculated is clear adds one   *)
(* round at the end of the ledger: its id is the length before the call    *)
(* plus 1, it holds the setup and the settled players, the rounds that     *)
(* were there are unchanged, and isCalculated is set.                      *)
C13_FirstSettlementAppends ==
    [][(last' = "calculateMoney" /\ ~isCalculated)
        => /\ Len(gameHistory') = Len(gameHistory) + 1
           /\ SubSeq(gameHistory', 1, Len(gameHistory)) = gameHistory
           /\ gameHistory'[Len(gameHistory')].id = Len(gameHistory) + 1
           /\ gameHistory'[Len(gameHistory')].setup = setup
           /\ gameHistory'[Len(gameHistory')].players = players'
           /\ isCalculated']_vars

C13_Witness ==
    /\ last = "calculateMoney"
    /\ Len(gameHistory) = 2
    /\ LastRound.id = 2
    /\ \A i \in DOMAIN pre.players : pre.players[i].money = 0
    /\ \E i \in DOMAIN players : players[i].money # 0

(* C14: a successful calculateMoney while isCalculated is set and the     *)
(* ledger is not empty keeps the length of the ledger: the last round gets *)
(* the settled players and a timestamp and keeps its id and setup, the     *)
(* earlier rounds are unchanged.                                           *)
C14_RecalculateReplaces ==
    [][(last' = "calculateMoney" /\ isCalculated /\ Len(gameHistory) > 0)
        => /\ Len(gameHistory') = Len(gameHistory)
           /\ \A k \in 1..(Len(gameHistory) - 1) : gameHistory'[k] = gameHistory[k]
           /\ gameHistory'[Len(gameHistory')].id = LastRound.id
           /\ gameHistory'[Len(gameHistory')].setup = LastRound.setup
           /\ gameHistory'[Len(gameHistory')].players = players'
           /\ isCalculated']_vars

C14_Witness ==
    /\ last = "calculateMoney"
    /\ Len(gameHistory) = 2
    /\ Moneys(pre.players) # Moneys(players)
    /\ \E i \in DOMAIN pre.players : pre.players[i].money # 0

(* C15: handleUndo on a ledger of L >= 1 rounds removes the last round and *)
(* clears isCalculated.  With L >= 2 players and setup become those of the *)
(* round that is now last; with L = 1 the players keep id and name, their  *)
(* money is 0 and the inputs of the round are cleared.                     *)
C15_Undo ==
    [][last' = "handleUndo"
        => /\ Len(gameHistory) >= 1
           /\ gameHistory' = SubSeq(gameHistory, 1, Len(gameHistory) - 1)
           /\ ~isCalculated'
           /\ Len(gameHistory) >= 2
                 => /\ players' = gameHistory[Len(gameHistory) - 1].players
                    /\ setup' = gameHistory[Len(gameHistory) - 1].setup
           /\ Len(gameHistory) = 1
                 => /\ Len(players') = Len(players)
                    /\ players' = Blank(players)]_vars

C15_Witness ==
    /\ last = "handleUndo"
    /\ gameHistory = <<>>
    /\ selectedGame = "xi-dach"
    /\ Len(players) = 2
    /\ \A i \in DOMAIN players :
          players[i].money = 0 /\ players[i].betAmount = 0 /\ players[i].result = Null

(* A Ladder table re-settled from the modal: the positions and adjustments  *)
(* are as wide as in InitSettle, the round comes from calculateMoney and is *)
(* opened and saved again as it stands.                                     *)
InitResettle ==
    /\ InitSettle
    /\ selectedGame = "tien-len"

NextResettle ==
    \/ TienLen_calculateMoney
    \/ TienLen_handleEditRound
    \/ TienLen_closeEdit
    \/ TienLen_handleSaveRoundEdit

SpecResettle == InitResettle /\ [][NextResettle]_vars

(* the tables for which the Ladder payout is laid down: winner takes all,  *)
(* or two levels with four players holding one position each               *)
PayoutLaidDown(su, ps) ==
    \/ su.rule = "nhat-an-het"
    \/ /\ su.rule = "nhat-an-bet-nhi-an-ba"
       /\ su.numberOfPlayers = 4
       /\ \A position \in Positions : \E i \in DOMAIN ps : ps[i].position = position

(* the payout of a Ladder position under a setup *)
Payout(su, position) ==
    IF su.rule = "nhat-an-het"
    THEN IF position = "nhat" THEN su.betAmount * (su.numberOfPlayers - 1)
         ELSE -su.betAmount
    ELSE CASE position = "nhat" -> su.betLevel1
           [] position = "nhi" -> su.betLevel2
           [] position = "bet" -> -su.betLevel1
           [] position = "ba" -> -su.betLevel2

SavePressed == last' \in {"handleSaveRoundEdit", "handleSaveRoundEdit:error"}

(* C16: a successful handleSaveRoundEdit stores in the edited round, for   *)
(* every player, the edited position and adjustment and the money of that  *)
(* position under the setup stored in the round, plus the adjustment.      *)
C16_EditSettlesWithRoundSetup ==
    [][(/\ last' = "handleSaveRoundEdit"
        /\ PayoutLaidDown(gameHistory[RoundIndex(gameHistory, editingRoundId)].setup,
                          editingRoundPlayers))
        => LET k == RoundIndex(gameHistory, editingRoundId) IN
           /\ Len(gameHistory'[k].players) = Len(editingRoundPlayers)
           /\ \A i \in DOMAIN editingRoundPlayers :
                 /\ gameHistory'[k].players[i].position = editingRoundPlayers[i].position
                 /\ gameHistory'[k].players[i].adjustments = editingRoundPlayers[i].adjustments
                 /\ gameHistory'[k].players[i].money =
                       Payout(gameHistory[k].setup, editingRoundPlayers[i].position)
                       + editingRoundPlayers[i].adjustments]_vars

(* C17: handleSaveRoundEdit with a player of the draft without a position  *)
(* shows the error of the modal and leaves the ledger, the players and     *)
(* isCalculated as they were.                                              *)
C17_EditIncompleteChangesNothing ==
    [][(SavePressed /\ \E i \in DOMAIN editingRoundPlayers :
                          editingRoundPlayers[i].position \notin Positions)
        => /\ editModalError' # NoError
           /\ UNCHANGED <<gameHistory, players, setup, isCalculated>>]_vars

C17_Witness ==
    /\ last = "handleSaveRoundEdit:error"
    /\ editModalError # NoError
    /\ editingRoundId # 0
    /\ Len(gameHistory) = 2
    /\ editingRoundPlayers[2].position = Null
    /\ editingRoundPlayers[1].position # Null

(* handleEditRound or handleDeleteRound called with an id no round carries *)
RoundNotFound ==
    /\ last' \in {"handleEditRound", "handleDeleteRound"}
    /\ RoundIndex(gameHistory, pre'.roundId) = 0

(* C18 as stated: handleEditRound or handleDeleteRound with an id that no   *)
(* round carries changes nothing of the ledger, the players, the setup and  *)
(* isCalculated, and an error is shown.                                     *)
C18_NotFoundError ==
    [][RoundNotFound
        => /\ UNCHANGED <<gameHistory, players, setup, isCalculated>>
           /\ (validationError' # NoError \/ editModalError' # NoError)]_vars

(* C18 amended: handleEditRound or handleDeleteRound with an id that no     *)
(* round carries changes nothing of the ledger, the players, the setup and  *)
(* isCalculated, opens no modal, and shows no error: the call is ignored.   *)
C18_NotFoundIgnored ==
    [][RoundNotFound
        => UNCHANGED <<gameHistory, players, setup, isCalculated, showSetup,
                       editingRoundId, editingRoundPlayers,
                       validationError, editModalError>>]_vars

C18_Witness ==
    /\ last = "handleDeleteRound"
    /\ Len(gameHistory) = MaxRounds
    /\ pre.roundId = MaxRounds + 1
    /\ validationError = NoError
    /\ editModalError = NoError

(* the ledger without its k-th round *)
WithoutRound(history, k) ==
    [j \in 1..(Len(history) - 1) |-> IF j < k THEN history[j] ELSE history[j + 1]]

(* C19: handleDeleteRound with the id of a round of the ledger removes      *)
(* exactly one round, which carries that id: the ledger gets shorter by 1,  *)
(* the other rounds stay as they are and in their order, and the players    *)
(* are unchanged.                                                           *)
C19_DeleteRemovesOne ==
    [][(last' = "handleDeleteRound" /\ RoundIndex(gameHistory, pre'.roundId) # 0)
        => /\ Len(gameHistory') = Len(gameHistory) - 1
           /\ \E k \in DOMAIN gameHistory :
                 /\ gameHistory[k].id = pre'.roundId
                 /\ gameHistory' = WithoutRound(gameHistory, k)
           /\ players' = players]_vars

(* The three calculators with the name field of the player cards: the      *)
(* sessions of Spec, in which player 1 may be renamed at any table.         *)
PlayerNames == {"An", "Binh"}
NamedPlayers == {1}

(* handlePlayerNameChange(playerId, newName), the same in the three calculators *)
handlePlayerNameChange ==
    /\ selectedGame # Null
    /\ ~showSetup
    /\ editingRoundId = 0
    /\ \E playerId \in NamedPlayers, newName \in PlayerNames :
          players' = [i \in DOMAIN players |->
                         IF players[i].id = playerId
                         THEN [players[i] EXCEPT !.name = newName]
                         ELSE players[i]]
    /\ last' = "other"
    /\ pre' = NoPre
    /\ UNCHANGED <<selectedGame, setup, showSetup, gameHistory, isCalculated,
                   validationError, editingRoundId, editingRoundPlayers, editModalError>>
    /\ AutoSaveEffect

NextTotals ==
    \/ Next
    \/ handlePlayerNameChange

SpecTotals == Init /\ [][NextTotals]_vars

(* the ids of the players of the rounds of a ledger *)
IdsOf(history) ==
    UNION {{history[k].players[i].id : i \in DOMAIN history[k].players} :
              k \in DOMAIN history}

(* the name an id carries in the last round that contains it *)
LastName(history, id) ==
    LET rounds == {k \in DOMAIN history :
                      \E i \in DOMAIN history[k].players : history[k].players[i].id = id}
        k == CHOOSE a \in rounds : \A b \in rounds : b <= a
        i == CHOOSE j \in DOMAIN history[k].players : history[k].players[j].id = id
    IN history[k].players[i].name

(* C20: the summary of all rounds has one row for every player id of the    *)
(* ledger, with the sum of that id's money over all rounds and the name the *)
(* id carries in the last round that contains it; the rows are in ascending *)
(* order of id, and an empty ledger gives no row.                           *)
C20_AggregateTotals ==
    LET rows == playerTotals(gameHistory) IN
    /\ {rows[k].id : k \in DOMAIN rows} = IdsOf(gameHistory)
    /\ \A k \in DOMAIN rows :
          /\ rows[k].total = PlayerTotal(gameHistory, rows[k].id)
          /\ rows[k].name = LastName(gameHistory, rows[k].id)
    /\ \A j, k \in DOMAIN rows : j < k => rows[j].id < rows[k].id
    /\ gameHistory = <<>> => rows = <<>>

C20_Witness ==
    /\ Len(gameHistory) = 2
    /\ Len(gameHistory[1].players) = 3
    /\ gameHistory[1].players[1].name = "An"
    /\ gameHistory[2].players[1].name = "Binh"
    /\ playerTotals(gameHistory)[1] = [id |-> 1, name |-> "Binh", total |-> 2000]
    /\ playerTotals(gameHistory)[3].id = 3

(* the inputs of a round are blank: position and adjustment, result and  *)
(* bet, winner and win type                                                *)
BlankInputs(game, p) ==
    CASE game = "tien-len" -> p.position = Null /\ p.adjustments = 0
      [] game = "xi-dach" -> p.result = Null /\ p.betAmount = 0
      [] game = "kach-te" -> p.isWinner = FALSE /\ p.winType = Null

(* C21: handleNewRound clears isCalculated, sets every player's money to 0  *)
(* and the inputs of the round to blank, keeps every player's id and name   *)
(* and the number of players, and leaves the ledger and the setup as they   *)
(* were.                                                                    *)
C21_NewRound ==
    [][last' = "handleNewRound"
        => /\ isCalculated' = FALSE
           /\ Len(players') = Len(players)
           /\ \A i \in DOMAIN players :
                 /\ players'[i].id = players[i].id
                 /\ players'[i].name = players[i].name
                 /\ players'[i].money = 0
                 /\ BlankInputs(selectedGame, players'[i])
           /\ UNCHANGED <<gameHistory, setup>>]_vars

C21_Witness ==
    /\ last = "handleNewRound"
    /\ selectedGame = "tien-len"
    /\ Len(gameHistory) = 1
    /\ gameHistory[1].players[1].adjustments # 0
    /\ gameHistory[1].players[1].position # Null
    /\ players[1].adjustments = 0
    /\ players[1].position = Null
    /\ players[1].money = 0

ResetPressed == last' = "resetGame"

C23_WinnerTakesAll ==
    (Settled("tien-len") /\ setup.rule = "nhat-an-het")
        => \A i \in DOMAIN players :
              players[i].money =
                 (IF players[i].position = "nhat"
                  THEN setup.betAmount * (setup.numberOfPlayers - 1)
                  ELSE -setup.betAmount) + players[i].adjustments

C23_Witness ==
    /\ Settled("tien-len")
    /\ setup.rule = "nhat-an-het"
    /\ setup.numberOfPlayers = 3
    /\ setup.betAmount = 5000
    /\ players[1].money = -4000
    /\ players[2].money = 10000
    /\ players[3].money = -5000

(* C25: Ladder, rule nhat-an-bet-nhi-an-ba with four players holding nhat,  *)
(* nhi, ba and bet and both levels positive: after a calculateMoney that    *)
(* passes the validation the money before the adjustment is +betLevel1 for  *)
(* nhat, -betLevel1 for bet, +betLevel2 for nhi and -betLevel2 for ba.      *)
C25_Tiered ==
    (/\ Settled("tien-len")
     /\ setup.rule = "nhat-an-bet-nhi-an-ba"
     /\ setup.numberOfPlayers = 4
     /\ setup.betLevel1 > 0
     /\ setup.betLevel2 > 0)
        => \A i \in DOMAIN players :
              players[i].money - players[i].adjustments =
                 CASE players[i].position = "nhat" -> setup.betLevel1
                   [] players[i].position = "bet" -> -setup.betLevel1
                   [] players[i].position = "nhi" -> setup.betLevel2
                   [] players[i].position = "ba" -> -setup.betLevel2

C25_Witness ==
    /\ Settled("tien-len")
    /\ setup.rule = "nhat-an-bet-nhi-an-ba"
    /\ setup.numberOfPlayers = 4
    /\ setup.betLevel1 = 5000
    /\ setup.betLevel2 = 2000
    /\ players[1].position = "ba"
    /\ players[1].money = -1000
    /\ players[2].position = "nhat"
    /\ players[2].money = 5000
    /\ players[3].position = "bet"
    /\ players[4].position = "nhi"
    /\ players[4].money = 3000

(* C24: Ladder: the money after a calculateMoney that passes the           *)
(* validation depends on the setup, the positions and the adjustments only: *)
(* it is the money the same call gives when every player's money is 0       *)
(* before it, for both rules and for bet levels of 0 as well.               *)
C24_RecomputeFromScratch ==
    [][(selectedGame = "tien-len" /\ last' = "calculateMoney")
        => Moneys(players') = Moneys(TienLen_settle(setup, TienLen_zeroed(players)))]_vars

(* the players of the table at a position *)
Holders(position) == {i \in DOMAIN players : players[i].position = position}

(* C26: Ladder, rule nhat-an-bet-nhi-an-ba: a calculateMoney passes the     *)
(* validation only when each of nhat, nhi, ba and bet is held by exactly    *)
(* one player, and the money before the adjustments then sums to 0, for     *)
(* every number of players of the setup form.                               *)
C26_TieredAllPositionsHeld ==
    (Settled("tien-len") /\ setup.rule = "nhat-an-bet-nhi-an-ba")
        => /\ \A position \in Positions : Cardinality(Holders(position)) = 1
           /\ SumBase(players) = 0

RECURSIVE SumBets(_, _)
(* the bets of the players other than the house that have the result *)
SumBets(ps, result) ==
    IF ps = <<>> THEN 0
    ELSE (IF ~Head(ps).isHouse /\ Head(ps).result = result THEN Head(ps).betAmount ELSE 0)
         + SumBets(Tail(ps), result)

(* C27: Banker: after a calculateMoney that passes the validation every    *)
(* player other than the house has +betAmount when it wins and -betAmount  *)
(* when it loses, and the house has the bets of the losers minus the bets  *)
(* of the winners, whatever money it had before.                           *)
C27_BankerSettlement ==
    Settled("xi-dach")
        => \A i \in DOMAIN players :
              players[i].money =
                 IF players[i].isHouse
                 THEN SumBets(players, "lose") - SumBets(players, "win")
                 ELSE IF players[i].result = "win" THEN players[i].betAmount
                 ELSE -players[i].betAmount

C27_Witness ==
    /\ Settled("xi-dach")
    /\ Len(players) = 3
    /\ players[1].isHouse
    /\ players[2].betAmount = 5000
    /\ players[2].result = "win"
    /\ players[3].betAmount = 3000
    /\ players[3].result = "lose"
    /\ Moneys(players) = <<-2000, 5000, -3000>>

(* C28: Pot: after a calculateMoney that passes the validation the winner  *)
(* has (numberOfPlayers - 1) times the bet of its win type (sapLangBetAmount *)
(* for sap-lang, defaultBetAmount otherwise) and every other player has     *)
(* minus that bet.                                                          *)
C28_PotSettlement ==
    Settled("kach-te")
        => \E w \in DOMAIN players :
              LET tierBet == IF players[w].winType = "sap-lang"
                             THEN setup.sapLangBetAmount
                             ELSE setup.defaultBetAmount IN
              /\ players[w].isWinner
              /\ players[w].money = (setup.numberOfPlayers - 1) * tierBet
              /\ \A i \in DOMAIN players \ {w} : players[i].money = -tierBet

C28_Witness ==
    /\ Settled("kach-te")
    /\ setup.numberOfPlayers = 4
    /\ setup.defaultBetAmount = 2000
    /\ setup.sapLangBetAmount = 5000
    /\ players[2].winType = "sap-lang"
    /\ Moneys(players) = <<-5000, 15000, -5000, -5000>>

(* A Pot calculator from its mount, with the timer of the auto-save effect *)
(* and the outcome of saveGameSession.                                     *)
InitSave ==
    /\ selectedGame = "kach-te"
    /\ Mounted
    /\ NothingSaved
    /\ last = "handleGameClick"
    /\ pre = NoPre

NextSave ==
    \/ KachTe_handleSetupSubmit
    \/ KachTe_handleWinnerChange
    \/ saveSession
    \/ saveGameSession_loaded
    \/ saveSession_resolved
    \/ saveSession_rejected

SpecSave == InitSave /\ [][NextSave]_vars

(* C29: every save the timer issues is the only one since the last change  *)
(* of setup, players or ledger, and it carries the setup, the players and   *)
(* the ledger of that moment; for a game without a session id as well.      *)
C29_OneSavePerBurst ==
    [][last' = "saveSession"
        => /\ issued' = 1
           /\ Len(saving') = Len(saving) + 1
           /\ LET call == saving'[Len(saving')] IN
              /\ call.setup = setup'
              /\ call.players = players'
              /\ call.gameHistory = gameHistory']_vars

(* C30: a saveSession whose saveGameSession throws leaves the setup, the   *)
(* players, the ledger, isCalculated and the session id as they were, sets  *)
(* no timer, and the call is over: it is not tried again.                   *)
C30_FailedSaveChangesNothing ==
    [][last' = "saveSession:rejected"
        => /\ UNCHANGED <<setup, players, gameHistory, isCalculated, currentSessionId, timer>>
           /\ Len(saving') = Len(saving) - 1]_vars

C30_Witness ==
    /\ last = "saveSession:rejected"
    /\ \E i \in DOMAIN players : players[i].isWinner
    /\ currentSessionId = 0
    /\ issued = 1
    /\ ~timer
    /\ saving = <<>>

(* the ids of the players of a round that are flagged as the house *)
HouseIds(round) == {round.players[i].id : i \in {j \in DOMAIN round.players : round.players[j].isHouse}}

(* C32: the setup stored in a round is the setup under which the players of *)
(* the round were last settled: right after a calculateMoney the last round *)
(* carries the setup of the table, and in a Banker ledger the housePlayerId *)
(* of every round is the id of the player of that round flagged isHouse.    *)
C32_RoundSetupIsSettlementSetup ==
    /\ last = "calculateMoney" => LastRound.setup = setup
    /\ selectedGame = "xi-dach"
          => \A k \in DOMAIN gameHistory :
                HouseIds(gameHistory[k]) = {gameHistory[k].setup.housePlayerId}

(* the commands that edit the round in progress: the input handlers (their *)
(* steps carry "other" or the label of handlePositionChange) and new round  *)
EditsRoundInProgress ==
    last' \in {"other", "handlePositionChange", "handlePositionChange:taken",
               "handleNewRound"}

(* C33: renaming a player, choosing a position, changing an adjustment, a   *)
(* bet, a result or the winner, and handleNewRound, leave every round of    *)
(* the ledger as it is, the round calculateMoney has just appended too.     *)
C33_LedgerIsolated ==
    [][EditsRoundInProgress => gameHistory' = gameHistory]_vars

C33_Witness ==
    /\ last = "other"
    /\ selectedGame = "tien-len"
    /\ isCalculated
    /\ Len(gameHistory) = 1
    /\ players[1].name = "An"
    /\ gameHistory[1].players[1].name = DefaultNames[1]
    /\ players[1].adjustments # gameHistory[1].players[1].adjustments

(* C34: no two rounds of a ledger carry the same id, after any sequence of *)
(* calculateMoney, handleNewRound, handleUndo, the edit of a round and      *)
(* handleDeleteRound.                                                       *)
C34_RoundIdsUnique ==
    \A a, b \in DOMAIN gameHistory : a # b => gameHistory[a].id # gameHistory[b].id

(* C35: calculateMoney does not overwrite an earlier round: when            *)
(* handleDeleteRound has removed the last round while isCalculated is set,  *)
(* the calculateMoney that follows leaves every round of the ledger as it   *)
(* is and appends its round.                                                *)
C35_CalculateKeepsEarlierRounds ==
    [][(/\ last = "handleDeleteRound"
        /\ pre.removedLast
        /\ isCalculated
        /\ Len(gameHistory) > 0
        /\ last' = "calculateMoney")
        => /\ Len(gameHistory') = Len(gameHistory) + 1
           /\ SubSeq(gameHistory', 1, Len(gameHistory)) = gameHistory]_vars

NextConverge ==
    \/ KachTe_handleSetupSubmit
    \/ KachTe_handleWinnerChange
    \/ saveSession
    \/ saveGameSession_loaded
    \/ saveSession_resolved

SpecConverge ==
    /\ InitSave
    /\ [][NextConverge]_vars
    /\ WF_vars(saveSession)
    /\ WF_vars(saveGameSession_loaded)
    /\ WF_vars(saveSession_resolved)

(* a step of a command of the user *)
Command == last' \notin {"saveSession", "saveGameSession:loaded", "saveSession:resolved"}

(* no timer is pending, no save is in flight, and with players configured  *)
(* the stored session of currentSessionId holds the setup, the players and *)
(* the ledger of the calculator                                            *)
Converged ==
    /\ ~timer
    /\ saving = <<>>
    /\ Armed(setup, players)
         => \E s \in store \cup sheet :
               /\ s.id = currentSessionId
               /\ JSON_parse(s.setup) = setup
               /\ JSON_parse(s.players) = players
               /\ JSON_parse(s.gameHistory) = gameHistory

(* C39: either the commands never stop, or from some moment on no timer is *)
(* pending, no save is in flight and the stored session of the current id  *)
(* holds the final setup, players and ledger.                              *)
C39_SavesConverge == ([]<><<Command>>_vars) \/ (<>[]Converged)

---------------------------------------------------------------------------
(* loadSession: the button "Mo" of the list of saved games, which is shown *)
(* on the setup form.                                                      *)

(* the ids of savedSessions: loadGameSessions answers with the sessions of  *)
(* the game in the sheet, or with those in localStorage when the server is  *)
(* not reached                                                              *)
savedSessions(gameType) ==
    {s.id : s \in {t \in sheet : t.gameType = gameType}
                  \cup getGameSessionsFromStorage(store, gameType)}

(* "setIsCalculated(gameHistory.length > 0)": gameHistory is the state of  *)
(* the render in which the button was clicked                              *)
TienLen_loadedIsCalculated(history, loadedHistory) == Len(history) > 0

(* the GET carries accountId and sessionId: the session comes from the sheet *)
TienLen_loadSession ==
    /\ selectedGame = "tien-len"
    /\ showSetup
    /\ \E sessionId \in savedSessions("tien-len") :
       \E session \in {s \in sheet : s.id = sessionId} :
          /\ setup' = JSON_parse(session.setup)
          /\ players' = JSON_parse(session.players)
          /\ gameHistory' = JSON_parse(session.gameHistory)
          /\ isCalculated' = TienLen_loadedIsCalculated(gameHistory,
                                                        JSON_parse(session.gameHistory))
          /\ pre' = [session |-> session]
          /\ AutoSaveEffectWith(session.id)
    /\ showSetup' = FALSE
    /\ last' = "loadSession"
    /\ UNCHANGED <<selectedGame, validationError, editingRoundId, editingRoundPlayers,
                   editModalError>>

(* "setIsCalculated(loadedHistory.length > 0)" *)
loadedIsCalculated(calculated, loadedHistory) == Len(loadedHistory) > 0

(* loadGameSession: its GET carries no accountId, so the session comes from *)
(* localStorage, by its id                                                  *)
XiDach_loadSession ==
    /\ selectedGame = "xi-dach"
    /\ showSetup
    /\ \E sessionId \in savedSessions("xi-dach") :
       \E session \in getGameSessionFromStorage(store, sessionId) :
          /\ setup' = JSON_parse(session.setup)
          /\ players' = JSON_parse(session.players)
          /\ gameHistory' = JSON_parse(session.gameHistory)
          /\ isCalculated' = loadedIsCalculated(isCalculated, JSON_parse(session.gameHistory))
          /\ pre' = [session |-> session]
          /\ AutoSaveEffectWith(session.id)
    /\ showSetup' = FALSE
    /\ last' = "loadSession"
    /\ UNCHANGED <<selectedGame, validationError, editingRoundId, editingRoundPlayers,
                   editModalError>>

KachTe_loadSession ==
    /\ selectedGame = "kach-te"
    /\ showSetup
    /\ \E sessionId \in savedSessions("kach-te") :
       \E session \in getGameSessionFromStorage(store, sessionId) :
          /\ setup' = JSON_parse(session.setup)
          /\ players' = JSON_parse(session.players)
          /\ gameHistory' = JSON_parse(session.gameHistory)
          /\ isCalculated' = loadedIsCalculated(isCalculated, JSON_parse(session.gameHistory))
          /\ pre' = [session |-> session]
          /\ AutoSaveEffectWith(session.id)
    /\ showSetup' = FALSE
    /\ last' = "loadSession"
    /\ UNCHANGED <<selectedGame, validationError, editingRoundId, editingRoundPlayers,
                   editModalError>>

(* the sessions a game has stored: one saved before the first round, with   *)
(* id 1, and one saved after the first calculateMoney, with id 2            *)
StoredSessions(gameType) ==
    IF gameType = "tien-len"
    THEN LET su == TienLen_newSetup(2, "nhat-an-het", 5000, 5000, 2000)
             seated == TienLen_positionChanged(
                          TienLen_positionChanged(TienLen_newPlayers(2), 1, "nhat"), 2, "bet")
             settled == TienLen_settle(su, seated)
         IN {GameSession(1, gameType, su, TienLen_newPlayers(2), <<>>),
             GameSession(2, gameType, su, settled, Recorded(<<>>, FALSE, su, settled, "t"))}
    ELSE IF gameType = "xi-dach"
    THEN LET su == [numberOfPlayers |-> 2, housePlayerId |-> 1]
             played == [XiDach_newPlayers(2, 1) EXCEPT ![2].betAmount = 5000,
                                                       ![2].result = "win"]
             settled == XiDach_settle(played)
         IN {GameSession(1, gameType, su, XiDach_newPlayers(2, 1), <<>>),
             GameSession(2, gameType, su, settled, Recorded(<<>>, FALSE, su, settled, "t"))}
    ELSE LET su == [numberOfPlayers |-> 2, defaultBetAmount |-> 2000,
                    sapLangBetAmount |-> 5000]
             played == KachTe_winnerChanged(KachTe_newPlayers(2), 1, "normal")
             settled == KachTe_settle(su, played)
         IN {GameSession(1, gameType, su, KachTe_newPlayers(2), <<>>),
             GameSession(2, gameType, su, settled, Recorded(<<>>, FALSE, su, settled, "t"))}

(* A calculator on its setup form, with two games in the list of saved     *)
(* games: in the sheet of the server and in localStorage.                  *)
InitLoad ==
    /\ selectedGame \in Games
    /\ Mounted
    /\ currentSessionId = 0
    /\ timer = FALSE
    /\ saving = <<>>
    /\ issued = 0
    /\ store = StoredSessions(selectedGame)
    /\ sheet = StoredSessions(selectedGame)
    /\ last = "handleGameClick"
    /\ pre = NoPre

NextLoad ==
    \/ TienLen_loadSession
    \/ TienLen_handleSetupSubmit
    \/ TienLen_handlePositionChange
    \/ TienLen_calculateMoney
    \/ TienLen_handleNewRound
    \/ TienLen_resetGame
    \/ XiDach_loadSession
    \/ XiDach_handleSetupSubmit
    \/ XiDach_handleBetAmountChange
    \/ XiDach_handleResultChange
    \/ XiDach_calculateMoney
    \/ XiDach_handleNewRound
    \/ XiDach_resetGame
    \/ KachTe_loadSession
    \/ KachTe_handleSetupSubmit
    \/ KachTe_handleWinnerChange
    \/ KachTe_calculateMoney
    \/ KachTe_handleNewRound
    \/ KachTe_resetGame

SpecLoad == InitLoad /\ [][NextLoad]_vars

(* C36: when loadSession has loaded a session, isCalculated says whether    *)
(* the loaded ledger has a round, and setup, players and ledger are those   *)
(* of the loaded session.                                                   *)
C36_LoadRestores ==
    last = "loadSession"
      => /\ isCalculated = (Len(JSON_parse(pre.session.gameHistory)) > 0)
         /\ setup = JSON_parse(pre.session.setup)
         /\ players = JSON_parse(pre.session.players)
         /\ gameHistory = JSON_parse(pre.session.gameHistory)

---------------------------------------------------------------------------
(* The menu with the Ladder and the Pot calculator, each from its setup     *)
(* form to the table and back to the menu, with the auto-save of the mounted *)
(* calculator and saves that succeed.  The sheet of the server starts empty. *)
NextStore ==
    \/ handleGameClick
    \/ handleBack
    \/ TienLen_handleSetupSubmit
    \/ KachTe_handleSetupSubmit
    \/ saveSession
    \/ saveGameSession_loaded
    \/ saveSession_resolved

SpecStore == Init /\ [][NextStore]_vars

(* the stored sessions, of the server and of localStorage *)
Stored == store \cup sheet

(* the session holds what the call carries *)
Holds(session, call) ==
    /\ JSON_parse(session.setup) = call.setup
    /\ JSON_parse(session.players) = call.players
    /\ JSON_parse(session.gameHistory) = call.gameHistory

(* C31: a save that returns, issued without a session id, has added one    *)
(* stored session and left every session that was stored as it was; issued *)
(* with the id of a stored session, it has made that session hold what the *)
(* save carries and left every other stored session as it was.             *)
C31_CreatesOrUpdates ==
    [][last' = "saveSession:resolved"
        => \E k \in DOMAIN saving :
              /\ saving' = Dropped(saving, k)
              /\ IF saving[k].sessionId = 0
                 THEN /\ Stored \subseteq Stored'
                      /\ \E s \in Stored' \ Stored : Holds(s, saving[k])
                 ELSE (\E s \in Stored : s.id = saving[k].sessionId)
                        => /\ \A s \in Stored : s.id # saving[k].sessionId => s \in Stored'
                           /\ \E s \in Stored' : /\ s.id = saving[k].sessionId
                                                 /\ Holds(s, saving[k])]_vars

(* A calculator from its mount: games are set up, saved by the auto-save   *)
(* and reset, one after the other.                                         *)
InitReset ==
    /\ selectedGame \in Games
    /\ Mounted
    /\ NothingSaved
    /\ last = "handleGameClick"
    /\ pre = NoPre

NextReset ==
    \/ TienLen_handleSetupSubmit
    \/ TienLen_resetGame
    \/ XiDach_handleSetupSubmit
    \/ XiDach_resetGame
    \/ KachTe_handleSetupSubmit
    \/ KachTe_resetGame
    \/ saveSession
    \/ saveGameSession_loaded
    \/ saveSession_resolved

SpecReset == InitReset /\ [][NextReset]_vars

(* C37: the setup submitted right after a reset starts a game without a    *)
(* session id.                                                             *)
C37_NewGameHasNoSessionId ==
    [][last = "resetGame" /\ last' = "handleSetupSubmit" => currentSessionId' = 0]_vars

============================================================================
